---------------------------- MODULE Spec2Model ----------------------------
(***************************************************************************)
(* Onigiri: the recursive split-based layout editor (LayoutCanvas).        *)
(*                                                                         *)
(* The canvas keeps a binary tree of splits; every rectangle is derived    *)
(* from the tree and the screen size.  Python floats are modelled as exact *)
(* rationals <<numerator, denominator>> (denominator > 0, lowest terms),   *)
(* int(round(v)) as round-half-to-even.  A Python dict node is a record;   *)
(* the identity of a split node (the "is" tests of the source) is its path *)
(* from the root, which no operation of the canvas changes while the node  *)
(* is in the tree.                                                         *)
(***************************************************************************)
EXTENDS Integers, Sequences, FiniteSets, TLC

VARIABLES
    screen,             \* <<screen_w, screen_h>> of _compute_screen_bbox
    has_profile,        \* _profile is not None
    tile_gap,           \* profile.tile_gap
    layout_slots,       \* profile.layout_slots (the saved rectangle list)
    tile_geom,          \* profile.tiles: tile name -> <<x, y, width, height>>
    gap,                \* _gap
    root,               \* _root
    next_leaf_id,       \* _next_leaf_id
    leaf_rects,         \* _leaf_rects, in insertion order
    split_lines,        \* _split_lines
    selected_leaf_id,   \* _selected_leaf_id (-1: None)
    active_split_node,  \* _active_split_node / _active_split_orientation
    last_event,         \* the handler that ran last, with its arguments
    moves,              \* mouse moves with a grabbed divider since the last load
    config,             \* ConfigModel: profile name -> tile name -> match
    kwin_rules,         \* kwinrulesrc: the rule sections, [General].rules and count
    layout_info         \* _data["layout_slots"][monitor]: current, layouts

vars == << screen, has_profile, tile_gap, layout_slots, tile_geom, gap, root,
           next_leaf_id, leaf_rects, split_lines, selected_leaf_id,
           active_split_node, last_event, moves, config, kwin_rules, layout_info >>

\* the fields of the canvas, but for the note of the last handler
canvas_vars == << screen, has_profile, tile_gap, layout_slots, tile_geom, gap, root,
                  next_leaf_id, leaf_rects, split_lines, selected_leaf_id,
                  active_split_node, moves >>

\* the configuration and the rule file, which no canvas handler touches
rule_vars == << config, kwin_rules >>

\* the same and the named layouts, which only saving a layout touches
store_vars == << config, kwin_rules, layout_info >>

---------------------------------------------------------------------------
(* Bounds of the model and constants of the program. *)

MaxLeaves == 3
MaxLeavesDeep == 4
MaxMoves == 2
MaxLeavesGap == 2
MaxLeafId == 6
MinLeafSize == 10
SnapDist == 8

MaxSlots == 3
MaxLeavesEdit == 2
MaxLeavesLabels == 3
MaxLeavesSnap == 5

ScreenSizes == { <<900, 600>>, <<200, 100>> }
TileNames == { "A", "B" }
ProfileNames == { "P", "Q" }
Matches == { [kind |-> "none", value |-> ""], [kind |-> "class", value |-> ""],
             [kind |-> "class", value |-> "kitty"] }
Gaps == { 0, 10, 60 }
Counts == { 1, 2, 3 }
Deltas == { -1000, 295, 300, 1000 }

\* saved rectangles: <<x, w>> and <<y, h>> of a slot, and the labels of a list
XSpans == { <<0, 50>>, <<50, 50>>, <<100, 100>>, <<0, 100>>, <<50, 150>>, <<0, 200>> }
YSpans == { <<0, 60>>, <<60, 40>>, <<0, 100>> }
SlotLabelings == { <<"A", "B", "C">>, <<"A", "A", "A">>, <<"A", "A", "B">>,
                   <<"A", "B", "">>, <<"", "", "">> }

---------------------------------------------------------------------------
(* Exact rational arithmetic standing for Python float arithmetic. *)

RECURSIVE GCD(_, _)
GCD(a, b) == IF b = 0 THEN a ELSE GCD(b, a % b)

Abs(n) == IF n < 0 THEN -n ELSE n

Norm(n, d) ==
    LET g == GCD(Abs(n), d)
    IN  IF n = 0 THEN <<0, 1>> ELSE << n \div g, d \div g >>

R(n) == <<n, 1>>
Frac(n, d) == Norm(n, d)

\* sums and products cancel common factors first, so that only a result that
\* is itself large leaves the integer range
RAdd(a, b) ==
    LET g == GCD(a[2], b[2])
    IN  Norm(a[1] * (b[2] \div g) + b[1] * (a[2] \div g), (a[2] \div g) * b[2])
RNeg(a) == << -a[1], a[2] >>
RSub(a, b) == RAdd(a, RNeg(b))
RMul(a, b) ==
    LET g1 == GCD(Abs(a[1]), b[2])
        g2 == GCD(Abs(b[1]), a[2])
    IN  IF a[1] = 0 \/ b[1] = 0 THEN <<0, 1>>
        ELSE << (a[1] \div g1) * (b[1] \div g2), (a[2] \div g2) * (b[2] \div g1) >>
RInv(a) == IF a[1] > 0 THEN << a[2], a[1] >> ELSE << -a[2], -a[1] >>
RDiv(a, b) == RMul(a, RInv(b))

\* a <= b, compared by integer parts and then the inverted remainders
RECURSIVE RLe(_, _)
RLe(a, b) ==
    LET fa == a[1] \div a[2]
        fb == b[1] \div b[2]
        ra == a[1] % a[2]
        rb == b[1] % b[2]
    IN  IF fa # fb THEN fa < fb
        ELSE IF ra = 0 THEN TRUE
        ELSE IF rb = 0 THEN FALSE
        ELSE RLe(<< b[2], rb >>, << a[2], ra >>)
RLt(a, b) == ~RLe(b, a)
RMin(a, b) == IF RLe(a, b) THEN a ELSE b
RMax(a, b) == IF RLe(a, b) THEN b ELSE a
RAbs(a) == << Abs(a[1]), a[2] >>

\* int(round(v)): Python 3 rounds halves to the even integer
Round(a) ==
    LET fl == a[1] \div a[2]
        rem == a[1] % a[2]
    IN  IF 2 * rem < a[2] THEN fl
        ELSE IF 2 * rem > a[2] THEN fl + 1
        ELSE IF fl % 2 = 0 THEN fl ELSE fl + 1

---------------------------------------------------------------------------
(* Tree nodes. *)

\* a local variable of the source: the value is computed once, then named
With(value, Body(_)) == Body(value)

NoNode == [type |-> "none"]
Leaf(id, name) == [type |-> "leaf", id |-> id, tile_name |-> name]
Split(o, r, a, b) ==
    [type |-> "split", orientation |-> o, ratio |-> r, first |-> a, second |-> b]

RECURSIVE NodeAt(_, _)
NodeAt(node, path) ==
    IF path = <<>> THEN node
    ELSE IF node.type # "split" THEN NoNode
    ELSE NodeAt(IF Head(path) = 1 THEN node.first ELSE node.second, Tail(path))

RECURSIVE ReplaceAt(_, _, _)
ReplaceAt(node, path, new) ==
    IF path = <<>> THEN new
    ELSE IF Head(path) = 1
         THEN [node EXCEPT !.first = ReplaceAt(node.first, Tail(path), new)]
         ELSE [node EXCEPT !.second = ReplaceAt(node.second, Tail(path), new)]

RECURSIVE LeafPaths(_, _)
LeafPaths(node, path) ==
    IF node.type = "none" THEN <<>>
    ELSE IF node.type = "leaf" THEN << path >>
    ELSE LeafPaths(node.first, Append(path, 1)) \o LeafPaths(node.second, Append(path, 2))

RECURSIVE SplitPaths(_, _)
SplitPaths(node, path) ==
    IF node.type # "split" THEN <<>>
    ELSE << path >> \o SplitPaths(node.first, Append(path, 1))
                    \o SplitPaths(node.second, Append(path, 2))

Range(s) == { s[i] : i \in 1..Len(s) }
LeafIds(node) == { NodeAt(node, p).id : p \in Range(LeafPaths(node, <<>>)) }
NumLeaves(node) == Len(LeafPaths(node, <<>>))

---------------------------------------------------------------------------
(* Geometry derivation: _rebuild_from_tree and its walk. *)

\* self._leaf_rects[node["id"]] = {...}: a dict keeps the place of a key it has
DictPut(d, e) ==
    IF \E i \in 1..Len(d) : d[i].id = e.id
    THEN [i \in 1..Len(d) |-> IF d[i].id = e.id THEN e ELSE d[i]]
    ELSE Append(d, e)

RECURSIVE DictPutAll(_, _)
DictPutAll(d, es) ==
    IF es = <<>> THEN d ELSE DictPutAll(DictPut(d, Head(es)), Tail(es))

\* min_ratio = max(0.01, min(min_leaf_size / max(dim, 1.0), 0.49))
MinRatio(dim) ==
    RMax(Frac(1, 100), RMin(RDiv(R(MinLeafSize), RMax(dim, R(1))), Frac(49, 100)))

\* a ratio that is taken as it comes
KeepRatio(ratio, dim) == ratio

\* ratio = max(min_ratio, min(ratio, 1.0 - min_ratio))
ClampRatio(ratio, dim) ==
    RMax(MinRatio(dim), RMin(ratio, RSub(R(1), MinRatio(dim))))

\* a second part that is given the whole extent instead of the remainder
WholeExtent(dim, ratio) == dim

\* w1 = w * ratio ; w2 = w - w1
FirstExtent(dim, ratio) == RMul(dim, ratio)
SecondExtent(dim, ratio) == RSub(dim, FirstExtent(dim, ratio))

\* a derivation that leaves the node's ratio as it was
StaleRatio(old, clamped) == old

\* node["ratio"] = ratio: the clamped ratio is stored back on the node
StoredRatio(old, clamped) == clamped

LeafRect(node, x, y, w, h) ==
    [id |-> node.id, x |-> x, y |-> y, w |-> w, h |-> h, tile_name |-> node.tile_name]

SplitLine(path, orient, x, y, w, h, pos) ==
    IF orient = "v"
    THEN [node |-> path, orientation |-> "v",
          x1 |-> pos, y1 |-> y, x2 |-> pos, y2 |-> RAdd(y, h),
          parent_x |-> x, parent_y |-> y, parent_w |-> w, parent_h |-> h]
    ELSE [node |-> path, orientation |-> "h",
          x1 |-> x, y1 |-> pos, x2 |-> RAdd(x, w), y2 |-> pos,
          parent_x |-> x, parent_y |-> y, parent_w |-> w, parent_h |-> h]

RECURSIVE walk(_, _, _, _, _, _)
walk(node, path, x, y, w, h) ==
    IF node.type = "leaf"
    THEN [node |-> node, leaf_rects |-> << LeafRect(node, x, y, w, h) >>,
          split_lines |-> <<>>]
    ELSE
      LET orient == node.orientation
          dim == IF orient = "v" THEN w ELSE h
      IN  With(ClampRatio(node.ratio, dim), LAMBDA ratio :
            LET e1 == FirstExtent(dim, ratio)
                e2 == SecondExtent(dim, ratio)
                pos == RAdd(IF orient = "v" THEN x ELSE y, e1)
            IN  With(IF orient = "v"
                     THEN walk(node.first, Append(path, 1), x, y, e1, h)
                     ELSE walk(node.first, Append(path, 1), x, y, w, e1), LAMBDA a :
                With(IF orient = "v"
                     THEN walk(node.second, Append(path, 2), pos, y, e2, h)
                     ELSE walk(node.second, Append(path, 2), x, pos, w, e2), LAMBDA b :
                  [node |-> [node EXCEPT !.ratio = StoredRatio(node.ratio, ratio),
                                         !.first = a.node, !.second = b.node],
                   leaf_rects |-> DictPutAll(a.leaf_rects, b.leaf_rects),
                   split_lines |-> << SplitLine(path, orient, x, y, w, h, pos) >>
                                   \o a.split_lines \o b.split_lines])))

\* _rebuild_from_tree: clears both caches, walks from (0, 0, screen_w, screen_h)
RebuildFromTree(r, scr) ==
    IF r.type = "none"
    THEN [node |-> r, leaf_rects |-> <<>>, split_lines |-> <<>>]
    ELSE walk(r, <<>>, R(0), R(0), R(scr[1]), R(scr[2]))

---------------------------------------------------------------------------
(* Gap projection: _push_geometry_into_tiles. *)

Eps == Frac(1, 2)

\* a pad that is half the gap on every side
HalfPad(g, edge, bound) == RDiv(g, R(2))

\* gap if abs(edge - bound) <= eps else gap / 2.0
Pad(g, edge, bound) ==
    IF RLe(RAbs(RSub(edge, bound)), Eps) THEN g ELSE RDiv(g, R(2))

\* min(pad_a + pad_b, max(extent - 1.0, 0.0))
TotalPad(pa, pb, extent) == RMin(RAdd(pa, pb), RMax(RSub(extent, R(1)), R(0)))

\* the tile geometry of one leaf rectangle: <<x, y, width, height>>
ProjectRect(rect, g0, scr) ==
    LET g == IF g0 < 0 THEN R(0) ELSE R(g0)
        left_pad == Pad(g, rect.x, R(0))
        right_pad == Pad(g, RAdd(rect.x, rect.w), R(scr[1]))
        top_pad == Pad(g, rect.y, R(0))
        bottom_pad == Pad(g, RAdd(rect.y, rect.h), R(scr[2]))
        total_w_pad == TotalPad(left_pad, right_pad, rect.w)
        total_h_pad == TotalPad(top_pad, bottom_pad, rect.h)
    IN  IF RLt(R(0), g)
        THEN << Round(RAdd(rect.x, left_pad)), Round(RAdd(rect.y, top_pad)),
                Round(RMax(R(1), RSub(rect.w, total_w_pad))),
                Round(RMax(R(1), RSub(rect.h, total_h_pad))) >>
        ELSE << Round(rect.x), Round(rect.y), Round(rect.w), Round(rect.h) >>

\* for lid, rect in self._leaf_rects.items(): ... tiles[idx].set_geometry(...)
RECURSIVE PushRects(_, _, _, _)
PushRects(tg, rects, g, scr) ==
    IF rects = <<>> THEN tg
    ELSE LET rect == Head(rects)
             tg1 == IF rect.tile_name # "" /\ rect.tile_name \in DOMAIN tg
                    THEN [tg EXCEPT ![rect.tile_name] = ProjectRect(rect, g, scr)]
                    ELSE tg
         IN  PushRects(tg1, Tail(rects), g, scr)

PushGeometryIntoTiles(tg, rects, g, scr, prof) ==
    IF ~prof THEN tg ELSE PushRects(tg, rects, g, scr)

---------------------------------------------------------------------------
(* Structural helpers: split / combine / relabel. *)

\* an allocator that hands out _next_leaf_id and leaves it as it is
StuckLeafId(next) == [id |-> next, next |-> next]

\* _alloc_leaf_id hands out _next_leaf_id and increments it
AllocLeafId(next) == [id |-> next, next |-> next + 1]

\* a chain whose first leaf gets one part of count + 1
ShortRatio(count) == Frac(1, count + 1)

\* "ratio": 1.0 / float(count): the first leaf gets 1/count of the region
ChainRatio(count) == Frac(1, count)

\* a chain whose every leaf takes the name of the leaf that was split
RECURSIVE LabelledChain(_, _, _, _)
LabelledChain(count, horizontal, tile_name, next) ==
    LET a == AllocLeafId(next)
    IN  IF count = 1
        THEN [node |-> Leaf(a.id, tile_name), next |-> a.next]
        ELSE LET rest == LabelledChain(count - 1, horizontal, tile_name, a.next)
             IN  [node |-> Split(IF horizontal THEN "h" ELSE "v", ChainRatio(count),
                                 Leaf(a.id, tile_name), rest.node),
                  next |-> rest.next]

\* _build_equal_split_chain: returns the subtree and the next free leaf id
RECURSIVE BuildEqualSplitChain(_, _, _, _)
BuildEqualSplitChain(count, horizontal, tile_name, next) ==
    LET a == AllocLeafId(next)
    IN  IF count = 1
        THEN [node |-> Leaf(a.id, tile_name), next |-> a.next]
        ELSE LET rest == BuildEqualSplitChain(count - 1, horizontal, "", a.next)
             IN  [node |-> Split(IF horizontal THEN "h" ELSE "v", ChainRatio(count),
                                 Leaf(a.id, tile_name), rest.node),
                  next |-> rest.next]

\* _find_leaf_node: the first leaf (pre-order) with this id, as its path
FindLeafPath(node, leaf_id) ==
    LET ps == LeafPaths(node, <<>>)
        hits == { i \in 1..Len(ps) : NodeAt(node, ps[i]).id = leaf_id }
    IN  IF hits = {} THEN << 0 >>
        ELSE ps[CHOOSE i \in hits : \A j \in hits : i <= j]

HasLeaf(node, leaf_id) == FindLeafPath(node, leaf_id) # << 0 >>

\* a relabel that never reaches the tree
KeepLeafTileName(node, leaf_id, name) == node

\* _set_leaf_tile_name: every leaf with this id gets the name
RECURSIVE SetLeafTileName(_, _, _)
SetLeafTileName(node, leaf_id, name) ==
    IF node.type = "none" THEN node
    ELSE IF node.type = "leaf"
         THEN (IF node.id = leaf_id THEN [node EXCEPT !.tile_name = name] ELSE node)
    ELSE [node EXCEPT !.first = SetLeafTileName(node.first, leaf_id, name),
                      !.second = SetLeafTileName(node.second, leaf_id, name)]

\* _replace_leaf_with_split: first child, second child, then the two subtrees
RECURSIVE ReplaceLeafWithSplit(_, _, _)
ReplaceLeafWithSplit(node, leaf_id, new_node) ==
    IF node.type = "leaf" THEN [node |-> node, done |-> FALSE]
    ELSE IF node.first.type = "leaf" /\ node.first.id = leaf_id
         THEN [node |-> [node EXCEPT !.first = new_node], done |-> TRUE]
    ELSE IF node.second.type = "leaf" /\ node.second.id = leaf_id
         THEN [node |-> [node EXCEPT !.second = new_node], done |-> TRUE]
    ELSE LET a == ReplaceLeafWithSplit(node.first, leaf_id, new_node)
             b == ReplaceLeafWithSplit(node.second, leaf_id, new_node)
         IN  IF a.done THEN [node |-> [node EXCEPT !.first = a.node], done |-> TRUE]
             ELSE [node |-> [node EXCEPT !.second = b.node], done |-> b.done]

---------------------------------------------------------------------------
(* Reconstruction from saved rectangles and export. *)

RectLo(r, axis) == IF axis = "v" THEN R(r.x) ELSE R(r.y)
RectHi(r, axis) == IF axis = "v" THEN R(r.x + r.w) ELSE R(r.y + r.h)

MinOf(S) == CHOOSE a \in S : \A b \in S : RLe(a, b)
MaxOf(S) == CHOOSE a \in S : \A b \in S : RLe(b, a)

\* the tight bounding box (x, y, w, h) of a non-empty rect list
BoundsOf(rects) ==
    LET min_x == MinOf({ RectLo(rects[i], "v") : i \in 1..Len(rects) })
        min_y == MinOf({ RectLo(rects[i], "h") : i \in 1..Len(rects) })
        max_x == MaxOf({ RectHi(rects[i], "v") : i \in 1..Len(rects) })
        max_y == MaxOf({ RectHi(rects[i], "h") : i \in 1..Len(rects) })
    IN  << min_x, min_y, RSub(max_x, min_x), RSub(max_y, min_y) >>

\* candidate split lines: rect edges strictly inside the region by more than eps
Candidates(rects, axis, lo, extent) ==
    { c \in { RectLo(rects[i], axis) : i \in 1..Len(rects) }
            \cup { RectHi(rects[i], axis) : i \in 1..Len(rects) } :
        RLt(RAdd(lo, Eps), c) /\ RLt(c, RSub(RAdd(lo, extent), Eps)) }

\* a rectangle that only counts as before the line when it ends short of it
ShortOfLine(r, axis, line) == RLe(RectHi(r, axis), RSub(line, Eps))

BeforeLine(r, axis, line) == RLe(RectHi(r, axis), RAdd(line, Eps))
AfterLine(r, axis, line) ==
    ~BeforeLine(r, axis, line) /\ RLe(RSub(line, Eps), RectLo(r, axis))

\* a line that is taken although rectangles cross it
CrossedLine(rects, axis, line) ==
    /\ \E i \in 1..Len(rects) : BeforeLine(rects[i], axis, line)
    /\ \E i \in 1..Len(rects) : AfterLine(rects[i], axis, line)

\* "if not crossing and left and right"
CleanLine(rects, axis, line) ==
    /\ \A i \in 1..Len(rects) :
           BeforeLine(rects[i], axis, line) \/ AfterLine(rects[i], axis, line)
    /\ \E i \in 1..Len(rects) : BeforeLine(rects[i], axis, line)
    /\ \E i \in 1..Len(rects) : AfterLine(rects[i], axis, line)

CleanLines(rects, axis, lo, extent) ==
    { c \in Candidates(rects, axis, lo, extent) : CleanLine(rects, axis, c) }

\* a fallback leaf that is never labeled
NoName(rects) == ""

\* a fallback leaf that takes the label of the first rectangle
FirstName(rects) == rects[1].tile_name

\* names = {tile_name of every rect}; the common name or ""
FallbackName(rects) ==
    LET names == { rects[i].tile_name : i \in 1..Len(rects) }
    IN  IF Cardinality(names) = 1 THEN CHOOSE n \in names : TRUE ELSE ""

\* _build_tree_from_rects on a non-empty list: the node and the next leaf id
RECURSIVE BuildTreeFromRects(_, _, _)
BuildTreeFromRects(rects, bounds, next) ==
    IF Len(rects) = 1
    THEN [node |-> Leaf(next, rects[1].tile_name), next |-> next + 1]
    ELSE
      With(CleanLines(rects, "v", bounds[1], bounds[3]), LAMBDA vs :
      With(CleanLines(rects, "h", bounds[2], bounds[4]), LAMBDA hs :
        IF vs = {} /\ hs = {}
        THEN [node |-> Leaf(next, FallbackName(rects)), next |-> next + 1]
        ELSE
          LET axis == IF vs # {} THEN "v" ELSE "h"
              lo == IF axis = "v" THEN bounds[1] ELSE bounds[2]
              extent == IF axis = "v" THEN bounds[3] ELSE bounds[4]
          IN  With(IF vs # {} THEN MinOf(vs) ELSE MinOf(hs), LAMBDA line :
              With(SelectSeq(rects, LAMBDA r : BeforeLine(r, axis, line)), LAMBDA before :
              With(SelectSeq(rects, LAMBDA r : AfterLine(r, axis, line)), LAMBDA after :
              With(BuildTreeFromRects(before, BoundsOf(before), next), LAMBDA a :
              With(BuildTreeFromRects(after, BoundsOf(after), a.next), LAMBDA b :
                [node |-> Split(axis,
                                IF RLt(R(0), extent) THEN RDiv(RSub(line, lo), extent)
                                                      ELSE Frac(1, 2),
                                a.node, b.node),
                 next |-> b.next])))))))

\* _ensure_root
EnsureRoot(r, next) ==
    IF r.type # "none" THEN [node |-> r, next |-> next]
    ELSE [node |-> Leaf(next, ""), next |-> next + 1]

\* _init_tree_from_profile_layout: the id allocator restarts at 0
InitTreeFromProfileLayout(raw_slots) ==
    IF raw_slots = <<>> THEN EnsureRoot(NoNode, 0)
    ELSE BuildTreeFromRects(raw_slots, BoundsOf(raw_slots), 0)

\* export_slots_for_profile: every cached leaf rectangle, rounded
ExportSlot(rect) ==
    [x |-> Round(rect.x), y |-> Round(rect.y), w |-> Round(rect.w),
     h |-> Round(rect.h), tile_name |-> rect.tile_name]

ExportSlotsForProfile(rects) == [i \in 1..Len(rects) |-> ExportSlot(rects[i])]

---------------------------------------------------------------------------
(* Divider drag: the arithmetic of mouseMoveEvent. *)

NoActive == [kind |-> "none"]
Detached(o) == [kind |-> "detached", orientation |-> o]
Active(path, o) == [kind |-> "node", path |-> path, orientation |-> o]

\* for s in self._split_lines: if s["node"] is self._active_split_node
LineOf(lines, act) ==
    LET hits == { i \in 1..Len(lines) : act.kind = "node" /\ lines[i].node = act.path }
    IN  IF hits = {} THEN 0 ELSE CHOOSE i \in hits : \A j \in hits : i <= j

\* the positions of the other dividers of this orientation that overlap the
\* grabbed divider's parent rectangle on the other axis, in list order
SnapCandidates(lines, k, o) ==
    LET info == lines[k]
        overlaps(s) ==
            IF o = "v"
            THEN ~(RLe(s.y2, info.parent_y)
                   \/ RLe(RAdd(info.parent_y, info.parent_h), s.y1))
            ELSE ~(RLe(s.x2, info.parent_x)
                   \/ RLe(RAdd(info.parent_x, info.parent_w), s.x1))
        idx == SelectSeq([i \in 1..Len(lines) |-> i],
                         LAMBDA i : lines[i].orientation = o /\ i # k
                                    /\ overlaps(lines[i]))
    IN  [j \in 1..Len(idx) |-> IF o = "v" THEN lines[idx[j]].x1 ELSE lines[idx[j]].y1]

\* a drag that never snaps
NoSnap(cands, pos) == pos

\* a snap to the candidate that is nearest to the position
NearestSnap(cands, pos) ==
    LET hits == { j \in 1..Len(cands) : RLe(RAbs(RSub(cands[j], pos)), R(SnapDist)) }
    IN  IF hits = {} THEN pos
        ELSE cands[CHOOSE j \in hits :
                     \A i \in hits : RLe(RAbs(RSub(cands[j], pos)),
                                          RAbs(RSub(cands[i], pos)))]

\* for cx in candidates: if abs(cx - x_new) <= snap_dist: x_new = cx; break
Snap(cands, pos) ==
    LET hits == { j \in 1..Len(cands) : RLe(RAbs(RSub(cands[j], pos)), R(SnapDist)) }
    IN  IF hits = {} THEN pos ELSE cands[CHOOSE j \in hits : \A i \in hits : j <= i]

\* x_new = max(left_min, min(x_old + dx_world, right_max))
ClampPos(pos, lo_min, hi_max) == RMax(lo_min, RMin(pos, hi_max))

\* a drag step that is carried out however narrow the parent is
ForcedDragRatio(lines, k, o, delta) ==
    LET info == lines[k]
        parent_lo == IF o = "v" THEN info.parent_x ELSE info.parent_y
        parent_dim == IF o = "v" THEN info.parent_w ELSE info.parent_h
        old == IF o = "v" THEN info.x1 ELSE info.y1
        lo_min == RAdd(parent_lo, R(MinLeafSize))
        hi_max == RSub(RAdd(parent_lo, parent_dim), R(MinLeafSize))
        clamped == ClampPos(RAdd(old, R(delta)), lo_min, hi_max)
    IN  << ClampRatio(RDiv(RSub(clamped, parent_lo), parent_dim), parent_dim) >>

\* the ratio written by one drag step on split line k, or <<>> for "return"
DragRatio(lines, k, o, delta) ==
    LET info == lines[k]
        parent_lo == IF o = "v" THEN info.parent_x ELSE info.parent_y
        parent_dim == IF o = "v" THEN info.parent_w ELSE info.parent_h
        old == IF o = "v" THEN info.x1 ELSE info.y1
        lo_min == RAdd(parent_lo, R(MinLeafSize))
        hi_max == RSub(RAdd(parent_lo, parent_dim), R(MinLeafSize))
        clamped == ClampPos(RAdd(old, R(delta)), lo_min, hi_max)
        snapped == Snap(SnapCandidates(lines, k, o), clamped)
    IN  IF RLe(hi_max, lo_min) THEN <<>>
        ELSE << ClampRatio(RDiv(RSub(snapped, parent_lo), parent_dim), parent_dim) >>

---------------------------------------------------------------------------
(* The state after construction, and the handlers. *)

\* last_event: the handler that ran last.  A split also notes its count, its
\* orientation, the place of the leaf it replaced and that leaf's rectangle.  A
\* combine notes the place of the split it removed and, when it directly
\* follows a split (or a combine that did) inside the region that split cut up,
\* that split's place, count and original rectangle and how many leaves are
\* left of it.
Event(op) == [op |-> op]

SplitEvent(count, horizontal, path, before) ==
    [op |-> "split", count |-> count, horizontal |-> horizontal, path |-> path,
     before |-> before]

MoveEvent(delta) == [op |-> "move", delta |-> delta]

NoChain == [count |-> 0]

IsPrefix(p, q) == Len(p) <= Len(q) /\ SubSeq(q, 1, Len(p)) = p

ChainOf(prev) ==
    IF prev.op = "split"
    THEN [count |-> prev.count, path |-> prev.path, before |-> prev.before,
          left |-> prev.count]
    ELSE IF prev.op = "combine" THEN prev.chain ELSE NoChain

CombineEvent(path, prev) ==
    LET c == ChainOf(prev)
    IN  [op |-> "combine", path |-> path,
         chain |-> IF c # NoChain /\ IsPrefix(c.path, path)
                   THEN [c EXCEPT !.left = @ - 1] ELSE NoChain]

---------------------------------------------------------------------------
(* The named layouts of a profile: ProfileModel's layout management. *)

\* x or "Default"
OrDefault(name) == IF name = "" THEN "Default" ELSE name

\* the place of a layout name in sorted(...)
KeyRank(name) ==
    CASE name = "" -> 0
      [] name = "Alt" -> 1
      [] name = "Default" -> 2
      [] name = "Tall" -> 3

\* sorted(layouts.keys())
RECURSIVE SortedKeys(_)
SortedKeys(keys) ==
    IF keys = {} THEN << >>
    ELSE With(CHOOSE k \in keys : \A o \in keys : KeyRank(k) <= KeyRank(o),
              LAMBDA k : << k >> \o SortedKeys(keys \ { k }))

\* layouts[name] = value
PutLayout(layouts, name, value) ==
    [n \in DOMAIN layouts \cup { name } |-> IF n = name THEN value ELSE layouts[n]]

\* del layouts[name]
DelLayout(layouts, name) == [n \in DOMAIN layouts \ { name } |-> layouts[n]]

\* the entry of a profile whose data holds this slot list and no named layout
StoredAsDefault(slots) ==
    [current |-> "Default", layouts |-> [n \in { "Default" } |-> slots]]

\* the entry of a profile whose data holds no layout at all
NoLayouts == [current |-> "Default", layouts |-> << >>]

\* what a getter does when there is no layout: layouts["Default"] = []
WithDefault(info) ==
    [current |-> "Default", layouts |-> PutLayout(info.layouts, "Default", << >>)]

\* the layout_slots getter: the entry it leaves and the list it returns
LayoutSlotsGet(info) ==
    With(OrDefault(info.current), LAMBDA current :
        IF DOMAIN info.layouts = {}
            THEN [info |-> WithDefault(info), value |-> << >>]
        ELSE IF current \notin DOMAIN info.layouts
            THEN With(SortedKeys(DOMAIN info.layouts)[1], LAMBDA first :
                    [info |-> [info EXCEPT !.current = first],
                     value |-> info.layouts[first]])
        ELSE [info |-> info, value |-> info.layouts[current]])

\* the layout_slots setter
LayoutSlotsSet(info, value) ==
    With(OrDefault(info.current), LAMBDA current :
        [current |-> current, layouts |-> PutLayout(info.layouts, current, value)])

\* the layout_names getter
LayoutNamesGet(info) ==
    With(IF DOMAIN info.layouts = {} THEN WithDefault(info) ELSE info, LAMBDA after :
        [info |-> after, value |-> SortedKeys(DOMAIN after.layouts)])

\* a getter that returns the recorded name without looking at the layouts
RecordedLayoutName(info) ==
    [info |-> info, value |-> OrDefault(info.current)]

\* the current_layout_name getter
CurrentLayoutNameGet(info) ==
    With(OrDefault(info.current), LAMBDA current :
        IF DOMAIN info.layouts = {}
            THEN [info |-> WithDefault(info), value |-> "Default"]
        ELSE IF current \notin DOMAIN info.layouts
            THEN With(SortedKeys(DOMAIN info.layouts)[1], LAMBDA first :
                    [info |-> [info EXCEPT !.current = first], value |-> first])
        ELSE [info |-> info, value |-> current])

\* the current_layout_name setter
CurrentLayoutNameSet(info, name) ==
    [current |-> name,
     layouts |-> IF DOMAIN info.layouts = {}
                    THEN PutLayout(info.layouts, name, << >>)
                    ELSE info.layouts]

\* create_empty_layout: raises, changing nothing, when the name is taken
CreateEmptyLayout(info, name) ==
    IF name \in DOMAIN info.layouts THEN info
    ELSE [current |-> name, layouts |-> PutLayout(info.layouts, name, << >>)]

\* delete_layout_by_name
DeleteLayoutByName(info, name) ==
    With(DelLayout(info.layouts, name), LAMBDA layouts :
        IF DOMAIN layouts = {}
            THEN [current |-> "Default", layouts |-> PutLayout(layouts, "Default", << >>)]
        ELSE IF info.current = name
            THEN [current |-> SortedKeys(DOMAIN layouts)[1], layouts |-> layouts]
        ELSE [current |-> info.current, layouts |-> layouts])

\* rename_layout returns False, changing nothing
RenameRefused(info, old_name, new_name) ==
    \/ old_name \notin DOMAIN info.layouts
    \/ new_name = ""
    \/ new_name \in DOMAIN info.layouts

\* rename_layout
RenameLayout(info, old_name, new_name) ==
    IF RenameRefused(info, old_name, new_name) THEN info
    ELSE [current |-> IF info.current = old_name THEN new_name ELSE info.current,
          layouts |-> PutLayout(DelLayout(info.layouts, old_name), new_name,
                                info.layouts[old_name])]

---------------------------------------------------------------------------

\* LayoutCanvas.__init__, beside a profile with these tiles and this entry of
\* named layouts, of which the canvas will be given this slot list
ConstructedBeside(scr, names, slots, info) ==
    /\ screen = scr
    /\ has_profile = FALSE
    /\ tile_gap = 0
    /\ layout_slots = slots
    /\ tile_geom = [n \in names |-> <<0, 0, 800, 600>>]
    /\ gap = 0
    /\ root = NoNode
    /\ next_leaf_id = 0
    /\ leaf_rects = <<>>
    /\ split_lines = <<>>
    /\ selected_leaf_id = -1
    /\ active_split_node = NoActive
    /\ last_event = Event("init")
    /\ moves = 0
    /\ config = [p \in ProfileNames |-> << >>]
    /\ kwin_rules = [sections |-> << >>, rules |-> << >>, count |-> -1]
    /\ layout_info = info

\* LayoutCanvas.__init__, beside a profile with these tiles and this saved layout
Constructed(scr, names, slots) ==
    ConstructedBeside(scr, names, slots, StoredAsDefault(slots))

\* the editing session on a profile that has no tiles and no saved layout yet
Init == \E scr \in ScreenSizes : Constructed(scr, {}, <<>>)

\* the tail of every mutating handler: _rebuild_from_tree, then
\* _push_geometry_into_tiles
RebuildAndPush(new_root) ==
    \E g \in { RebuildFromTree(new_root, screen) } :
        /\ root' = g.node
        /\ leaf_rects' = g.leaf_rects
        /\ split_lines' = g.split_lines
        /\ tile_geom' = PushGeometryIntoTiles(tile_geom, g.leaf_rects, gap, screen,
                                              has_profile)

\* set_profile(profile) with a profile: the tree is rebuilt from layout_slots
SetProfileTo(g) ==
    \E t \in { InitTreeFromProfileLayout(layout_slots) } :
    \E d \in { RebuildFromTree(t.node, screen) } :
        /\ has_profile' = TRUE
        /\ selected_leaf_id' = -1
        /\ active_split_node' = NoActive
        /\ gap' = g
        /\ root' = d.node
        /\ next_leaf_id' = t.next
        /\ leaf_rects' = d.leaf_rects
        /\ split_lines' = d.split_lines

\* on_edit_layout / on_load_layout: canvas.set_profile(profile)
SetProfile ==
    /\ SetProfileTo(tile_gap)
    /\ last_event' = Event("set_profile")
    /\ UNCHANGED << screen, tile_gap, layout_slots, tile_geom >>

\* set_profile(None)
SetProfileNone ==
    /\ has_profile' = FALSE
    /\ selected_leaf_id' = -1
    /\ active_split_node' = NoActive
    /\ root' = NoNode
    /\ next_leaf_id' = 0
    /\ leaf_rects' = <<>>
    /\ split_lines' = <<>>
    /\ last_event' = Event("set_profile_none")
    /\ UNCHANGED << screen, tile_gap, layout_slots, tile_geom, gap >>

\* on_profile_settings_changed: new gap, set_profile, and a push when it changed
ProfileSettingsChanged(g) ==
    /\ tile_gap' = g
    /\ SetProfileTo(g)
    /\ tile_geom' = IF g # tile_gap
                    THEN PushGeometryIntoTiles(tile_geom, leaf_rects', g, screen, TRUE)
                    ELSE tile_geom
    /\ last_event' = Event(IF g # tile_gap THEN "gap_changed" ELSE "gap_kept")
    /\ UNCHANGED << screen, layout_slots >>

\* on_save_layout: profile.layout_slots = export_slots_for_profile(), then a push
SaveLayout ==
    /\ layout_slots' = ExportSlotsForProfile(leaf_rects)
    /\ tile_geom' = PushGeometryIntoTiles(tile_geom, leaf_rects, gap, screen, has_profile)
    /\ last_event' = Event("save_layout")
    /\ UNCHANGED << screen, has_profile, tile_gap, gap, root, next_leaf_id, leaf_rects,
                    split_lines, selected_leaf_id, active_split_node >>

\* the lookup self._leaf_rects.get(lid): the cached rectangle, or <<>>
RectOf(rects, lid) ==
    LET hits == { i \in 1..Len(rects) : rects[i].id = lid }
    IN  IF hits = {} THEN <<>> ELSE << rects[CHOOSE i \in hits : TRUE] >>

\* a split that is refused only for a missing tree or leaf
SplitRefusedLate(r, leaf_id, count) ==
    r.type = "none" \/ ~HasLeaf(r, leaf_id)

\* _split_leaf_into returns at once: no tree, count <= 1, or no such leaf
SplitRefused(r, leaf_id, count) ==
    r.type = "none" \/ count <= 1 \/ ~HasLeaf(r, leaf_id)

\* _split_leaf_into(leaf_id, count, horizontal)
SplitLeafInto(leaf_id, count, horizontal) ==
    LET path == FindLeafPath(root, leaf_id)
        leaf_node == NodeAt(root, path)
        chain == BuildEqualSplitChain(count, horizontal, leaf_node.tile_name,
                                      next_leaf_id)
        new_root == IF path = <<>> THEN chain.node
                    ELSE ReplaceLeafWithSplit(root, leaf_id, chain.node).node
    IN  IF SplitRefused(root, leaf_id, count)
        THEN /\ last_event' = Event("split_refused")
             /\ UNCHANGED << screen, has_profile, tile_gap, layout_slots, tile_geom, gap,
                             root, next_leaf_id, leaf_rects, split_lines,
                             selected_leaf_id, active_split_node >>
        ELSE /\ next_leaf_id' = chain.next
             /\ RebuildAndPush(new_root)
             /\ last_event' = SplitEvent(count, horizontal, path,
                                          RectOf(leaf_rects, leaf_id)[1])
             /\ UNCHANGED << screen, has_profile, tile_gap, layout_slots, gap,
                             selected_leaf_id, active_split_node >>

\* a combine that is offered for any two sibling leaves
AnyLeafPair(node, rects) ==
    /\ node.type = "split"
    /\ node.first.type = "leaf" /\ node.second.type = "leaf"

\* contextMenuEvent: "Combine only if both children are leaves and same size"
CanCombine(node, rects) ==
    /\ node.type = "split"
    /\ node.first.type = "leaf"
    /\ node.second.type = "leaf"
    /\ RectOf(rects, node.first.id) # <<>>
    /\ RectOf(rects, node.second.id) # <<>>
    /\ LET r1 == RectOf(rects, node.first.id)[1]
           r2 == RectOf(rects, node.second.id)[1]
       IN  /\ RLt(RAbs(RSub(r1.w, r2.w)), Frac(1, 1000))
           /\ RLt(RAbs(RSub(r1.h, r2.h)), Frac(1, 1000))

\* a combine that keeps the second child's name
SecondName(first, second) == second.tile_name

\* tile_name = (first.tile_name or "") or (second.tile_name or "")
CombinedName(first, second) ==
    IF first.tile_name # "" THEN first.tile_name ELSE second.tile_name

\* _combine_split_node on the split at this path: the new root, the next leaf
\* id, and whether the tree was changed
CombineSplitNode(r, path, next) ==
    LET split_node == NodeAt(r, path)
    IN  IF r.type = "none" \/ split_node.type # "split"
           \/ ~(split_node.first.type = "leaf" /\ split_node.second.type = "leaf")
        THEN [node |-> r, next |-> next, done |-> FALSE]
        ELSE [node |-> ReplaceAt(r, path, Leaf(next, CombinedName(split_node.first,
                                                                   split_node.second))),
              next |-> next + 1, done |-> TRUE]

\* contextMenuEvent on a split line: the geometry is rebuilt, and "Combine tiles"
\* is offered (and here chosen) only when CanCombine
ContextMenuCombine(k) ==
    \E g \in { RebuildFromTree(root, screen) } :
    \E path \in { g.split_lines[j].node : j \in { k } \cap 1..Len(g.split_lines) } :
    \E c \in { CombineSplitNode(g.node, path, next_leaf_id) } :
        /\ has_profile
        /\ root.type # "none"
        /\ IF CanCombine(NodeAt(g.node, path), g.leaf_rects)
           THEN /\ next_leaf_id' = c.next
                /\ RebuildAndPush(c.node)
                /\ active_split_node' =
                       IF active_split_node.kind = "node" /\ active_split_node.path = path
                       THEN Detached(active_split_node.orientation)
                       ELSE active_split_node
                /\ last_event' = CombineEvent(path, last_event)
           ELSE /\ root' = g.node
                /\ leaf_rects' = g.leaf_rects
                /\ split_lines' = g.split_lines
                /\ last_event' = [op |-> "combine_refused", path |-> path]
                /\ UNCHANGED << next_leaf_id, tile_geom, active_split_node >>
        /\ UNCHANGED << screen, has_profile, tile_gap, layout_slots, gap,
                        selected_leaf_id >>

\* a menu that leaves out no name
NoUsedNames(rects, lid) == {}

\* the names the "Assign tile" menu leaves out: used by another leaf
UsedNames(rects, lid) ==
    { rects[i].tile_name : i \in { j \in 1..Len(rects) :
                                     rects[j].id # lid /\ rects[j].tile_name # "" } }

\* contextMenuEvent inside a tile, choosing "<none>" (name "") or an offered tile
ContextMenuAssign(lid, name) ==
    \E g \in { RebuildFromTree(root, screen) } :
    \E rects \in { [i \in 1..Len(g.leaf_rects) |->
                        IF g.leaf_rects[i].id = lid
                        THEN [g.leaf_rects[i] EXCEPT !.tile_name = name]
                        ELSE g.leaf_rects[i]] } :
        /\ has_profile
        /\ root.type # "none"
        /\ RectOf(g.leaf_rects, lid) # <<>>
        /\ name # "" => /\ name \in DOMAIN tile_geom
                         /\ ~(name \in UsedNames(g.leaf_rects, lid)
                              /\ name # RectOf(g.leaf_rects, lid)[1].tile_name)
        /\ root' = SetLeafTileName(g.node, lid, name)
        /\ leaf_rects' = rects
        /\ split_lines' = g.split_lines
        /\ tile_geom' = PushGeometryIntoTiles(tile_geom, rects, gap, screen, has_profile)
        /\ last_event' = Event("assign")
        /\ UNCHANGED << screen, has_profile, tile_gap, layout_slots, gap, next_leaf_id,
                        selected_leaf_id, active_split_node >>

\* mousePressEvent, left button on a split line: the divider is grabbed
MousePressSplit(k) ==
    /\ has_profile
    /\ root.type # "none"
    /\ k <= Len(split_lines)
    /\ active_split_node' = Active(split_lines[k].node, split_lines[k].orientation)
    /\ last_event' = Event("press_split")
    /\ UNCHANGED << screen, has_profile, tile_gap, layout_slots, tile_geom, gap, root,
                    next_leaf_id, leaf_rects, split_lines, selected_leaf_id >>

\* mousePressEvent, left button elsewhere: the leaf under the pointer (or None)
MousePressLeaf(lid) ==
    /\ has_profile
    /\ root.type # "none"
    /\ lid = -1 \/ RectOf(leaf_rects, lid) # <<>>
    /\ selected_leaf_id' = lid
    /\ last_event' = Event("press_leaf")
    /\ UNCHANGED << screen, has_profile, tile_gap, layout_slots, tile_geom, gap, root,
                    next_leaf_id, leaf_rects, split_lines, active_split_node >>

\* mouseMoveEvent with a grabbed divider and a pointer delta in world units
MouseMove(delta) ==
    \E g \in { RebuildFromTree(root, screen) } :
    \E k \in { LineOf(g.split_lines, active_split_node) } :
    \E nr \in { IF k = 0 THEN <<>>
                 ELSE DragRatio(g.split_lines, k, active_split_node.orientation, delta) } :
        /\ active_split_node.kind # "none"
        /\ IF nr = <<>>
           THEN /\ root' = g.node
                /\ leaf_rects' = g.leaf_rects
                /\ split_lines' = g.split_lines
                /\ last_event' = Event("move_refused")
                /\ UNCHANGED tile_geom
           ELSE /\ RebuildAndPush(
                       ReplaceAt(g.node, active_split_node.path,
                                 [NodeAt(g.node, active_split_node.path)
                                     EXCEPT !.orientation = active_split_node.orientation,
                                            !.ratio = nr[1]]))
                /\ last_event' = MoveEvent(delta)
        /\ UNCHANGED << screen, has_profile, tile_gap, layout_slots, gap, next_leaf_id,
                        selected_leaf_id, active_split_node >>

\* a pointer-up that never reaches the canvas
LostRelease ==
    /\ last_event' = Event("release")
    /\ UNCHANGED << screen, has_profile, tile_gap, layout_slots, tile_geom, gap, root,
                    next_leaf_id, leaf_rects, split_lines, selected_leaf_id,
                    active_split_node >>

\* mouseReleaseEvent, left button
MouseRelease ==
    /\ active_split_node' = NoActive
    /\ last_event' = Event("release")
    /\ UNCHANGED << screen, has_profile, tile_gap, layout_slots, tile_geom, gap, root,
                    next_leaf_id, leaf_rects, split_lines, selected_leaf_id >>

---------------------------------------------------------------------------
(* The window rules: OnigiriService, OnigiriEngine and KWinRulesManager.  The *)
(* rule file is its sections in file order, each with its name (the uuid,    *)
(* here a number), its Description "KWinTiler:<profile>:<tile>" (here the    *)
(* triple of the three parts) and its wmclass, and the rules list and the    *)
(* count of [General]; count is -1 while the file has no such key.           *)

\* MatchSpec.is_usable
IsUsable(match) == match.kind # "" /\ match.kind # "none" /\ match.value # ""

\* desc = f"KWinTiler:{profile.name}:{tile.name}"
Desc(profile, tile) == << "KWinTiler", profile, tile >>

\* the Descriptions of the sections of the file
Descriptions(file) == { file.sections[i].Description : i \in 1..Len(file.sections) }

\* the section names of the file
SectionIds(file) == { file.sections[i].id : i \in 1..Len(file.sections) }

\* _get_rules_list
GetRulesList(file) == file.rules

\* the loop of _set_rules_list: the first occurrence of every id, in order
RECURSIVE Cleaned(_)
Cleaned(ids) ==
    IF ids = << >> THEN << >>
    ELSE With(Cleaned(SubSeq(ids, 1, Len(ids) - 1)), LAMBDA head :
            IF ids[Len(ids)] \in Range(head) THEN head
            ELSE Append(head, ids[Len(ids)]))

\* _set_rules_list: [General].rules and [General].count
SetRulesList(file, ids) ==
    [file EXCEPT !.rules = Cleaned(ids), !.count = Len(Cleaned(ids))]

\* save_config
SaveConfig(file) == SetRulesList(file, GetRulesList(file))

\* _find_section_by_description: the place of the first such section, or 0
FindSectionByDescription(file, desc) ==
    With({ i \in 1..Len(file.sections) : file.sections[i].Description = desc },
         LAMBDA hits :
            IF hits = {} THEN 0 ELSE CHOOSE i \in hits : \A j \in hits : i <= j)

\* str(uuid4()): a name that no section and no entry of the rules list has
FreshRuleId(file) ==
    With(SectionIds(file) \cup Range(file.rules), LAMBDA used :
        CHOOSE n \in 1..(Cardinality(used) + 1) :
            n \notin used /\ \A m \in 1..(n - 1) : m \in used)

\* a new section for the Description, whether or not there is one already
AddRuleSection(file, desc) ==
    With(FreshRuleId(file), LAMBDA rule_id :
        [file |-> SetRulesList(
                    [file EXCEPT !.sections =
                        Append(@, [id |-> rule_id, Description |-> desc,
                                   wmclass |-> ""])],
                    Append(GetRulesList(file), rule_id)),
         id |-> rule_id])

\* ensure_rule_section: the section with this Description, made if missing;
\* the file it leaves and the name of the section
EnsureRuleSection(file, desc) ==
    With(FindSectionByDescription(file, desc), LAMBDA existing :
        IF existing # 0 THEN [file |-> file, id |-> file.sections[existing].id]
        ELSE With(FreshRuleId(file), LAMBDA rule_id :
                [file |-> SetRulesList(
                            [file EXCEPT !.sections =
                                Append(@, [id |-> rule_id, Description |-> desc,
                                           wmclass |-> ""])],
                            Append(GetRulesList(file), rule_id)),
                 id |-> rule_id]))

\* one round of the loop of apply_profile: the section of the tile is found or
\* made and the match written into it
ApplyTile(file, desc, match) ==
    With(EnsureRuleSection(file, desc), LAMBDA made :
        [made.file EXCEPT !.sections =
            [i \in 1..Len(made.file.sections) |->
                IF made.file.sections[i].id = made.id
                    THEN [made.file.sections[i] EXCEPT !.wmclass = match.value]
                    ELSE made.file.sections[i]]])

\* profile.tiles, in the order of the list
TileOrder == << "A", "B" >>

\* the loop of apply_profile over the first k tiles
RECURSIVE ApplyTiles(_, _, _, _)
ApplyTiles(file, tiles, name, k) ==
    IF k = 0 THEN file
    ELSE With(ApplyTiles(file, tiles, name, k - 1), LAMBDA done :
            IF TileOrder[k] \in DOMAIN tiles /\ IsUsable(tiles[TileOrder[k]])
                THEN ApplyTile(done, Desc(name, TileOrder[k]), tiles[TileOrder[k]])
                ELSE done)

\* OnigiriEngine.apply_profile on the saved configuration
ApplyProfile(rules, saved, name) ==
    IF DOMAIN saved[name] = {} THEN rules
    ELSE SaveConfig(ApplyTiles(rules, saved[name], name, Len(TileOrder)))

\* KWinRulesManager.remove_profile_rules: the sections with the profile's prefix
RemoveRules(rules, name) ==
    With({ rules.sections[i].id : i \in
             { j \in 1..Len(rules.sections) :
                 /\ rules.sections[j].Description[1] = "KWinTiler"
                 /\ rules.sections[j].Description[2] = name } },
         LAMBDA to_remove_ids :
            IF to_remove_ids = {} THEN rules
            ELSE SaveConfig(
                   [SetRulesList(rules, SelectSeq(GetRulesList(rules),
                                     LAMBDA r : r \notin to_remove_ids))
                      EXCEPT !.sections =
                         SelectSeq(@, LAMBDA sec : sec.id \notin to_remove_ids)]))

ProfileEvent(op, name) == [op |-> op, profile |-> name]

\* the tile editor: the tiles of a profile and their matches are rewritten
EditTiles(name, tiles) ==
    /\ config' = [config EXCEPT ![name] = tiles]
    /\ last_event' = ProfileEvent("edit_tiles", name)
    /\ UNCHANGED kwin_rules

\* OnigiriService.apply_profile_rules: save_config, then apply_profile(name)
ApplyProfileRules(name) ==
    /\ kwin_rules' = ApplyProfile(kwin_rules, config, name)
    /\ last_event' = ProfileEvent("apply_profile_rules", name)
    /\ UNCHANGED config

\* OnigiriService.remove_profile_rules
RemoveProfileRules(name) ==
    /\ kwin_rules' = RemoveRules(kwin_rules, name)
    /\ last_event' = ProfileEvent("remove_profile_rules", name)
    /\ UNCHANGED config

---------------------------------------------------------------------------
(* Specifications.  The model's bounds stand in the next-state relations, not *)
(* in the handlers: a split is explored while the tree keeps at most max    *)
(* leaves, and an allocation while the leaf ids stay within MaxLeafId.      *)

Load == SetProfile /\ moves' = 0 /\ UNCHANGED store_vars

Unload == SetProfileNone /\ moves' = 0 /\ UNCHANGED store_vars

Settings ==
    \E g \in Gaps : ProfileSettingsChanged(g) /\ moves' = 0 /\ UNCHANGED store_vars

Save ==
    /\ SaveLayout
    /\ layout_info' = LayoutSlotsSet(layout_info, layout_slots')
    /\ UNCHANGED << moves, rule_vars >>

\* the leaf ids a request can name: those of the tree, and one of no leaf
LeafIdInputs == LeafIds(root) \cup { MaxLeafId + 1 }

SplitWithin(max) ==
    \E lid \in LeafIdInputs, count \in Counts, horizontal \in BOOLEAN :
        /\ NumLeaves(root) + count - 1 <= max
        /\ next_leaf_id + count - 1 <= MaxLeafId
        /\ SplitLeafInto(lid, count, horizontal)
        /\ UNCHANGED << moves, store_vars >>

CombineWithin ==
    \E k \in 1..Len(split_lines) :
        /\ next_leaf_id <= MaxLeafId
        /\ ContextMenuCombine(k)
        /\ UNCHANGED << moves, store_vars >>

Assign ==
    \E lid \in LeafIds(root), name \in TileNames \cup {""} :
        ContextMenuAssign(lid, name) /\ UNCHANGED << moves, store_vars >>

Grab ==
    \E k \in 1..Len(split_lines) :
        MousePressSplit(k) /\ UNCHANGED << moves, store_vars >>

Drag ==
    \E delta \in Deltas :
        /\ moves < MaxMoves
        /\ MouseMove(delta)
        /\ moves' = moves + 1
        /\ UNCHANGED store_vars

Release == MouseRelease /\ UNCHANGED << moves, store_vars >>

\* the editing session: load, split, combine, drag
Next ==
    \/ Load
    \/ Unload
    \/ SplitWithin(MaxLeaves)
    \/ CombineWithin
    \/ Grab
    \/ Drag
    \/ Release

Spec == Init /\ [][Next]_vars

\* building a layout and saving it: load, split, combine, save
NextSave ==
    \/ Load
    \/ SplitWithin(MaxLeaves)
    \/ CombineWithin
    \/ Save

SpecSave == Init /\ [][NextSave]_vars

\* a saved rectangle list: any rectangles of the grid, overlapping or not
SavedLayout(n, spans, labels) ==
    [i \in 1..n |-> [x |-> spans[i][1][1], y |-> spans[i][2][1],
                     w |-> spans[i][1][2], h |-> spans[i][2][2],
                     tile_name |-> labels[i]]]

\* loading saved rectangle lists: _build_tree_from_rects on every list
InitRects ==
    \E n \in 1..MaxSlots : \E spans \in [1..n -> XSpans \X YSpans] :
        \E labels \in SlotLabelings :
            Constructed(<<200, 100>>, {}, SavedLayout(n, spans, labels))

NextRects == Load

SpecRects == InitRects /\ [][NextRects]_vars

\* a saved layout with a 20-pixel column beside the rest of a 900x600 screen
NarrowColumn ==
    << [x |-> 0, y |-> 0, w |-> 20, h |-> 600, tile_name |-> ""],
       [x |-> 20, y |-> 0, w |-> 880, h |-> 600, tile_name |-> ""] >>

InitDeep == Constructed(<<900, 600>>, {}, NarrowColumn)

\* loading that layout and splitting further
NextDeep ==
    \/ Load
    \/ SplitWithin(MaxLeavesDeep)
    \/ CombineWithin

SpecDeep == InitDeep /\ [][NextDeep]_vars

\* a profile with two tiles on the 200x100 screen, the gap being edited
InitGap == Constructed(<<200, 100>>, TileNames, <<>>)

NextGap ==
    \/ Load
    \/ Settings
    \/ SplitWithin(MaxLeavesGap)
    \/ CombineWithin
    \/ Assign

SpecGap == InitGap /\ [][NextGap]_vars

\* a profile with the one tile B on the 200x100 screen
InitEdit == Constructed(<<200, 100>>, { "B" }, <<>>)

\* a load in the middle of a session: the drag steps made so far stay counted
Reload == SetProfile /\ UNCHANGED << moves, store_vars >>

\* every handler that writes or reads the cached geometry: load, split,
\* combine, relabel, grab, drag, release, save
NextEdit ==
    \/ Reload
    \/ SplitWithin(MaxLeavesEdit)
    \/ CombineWithin
    \/ Assign
    \/ Grab
    \/ Drag
    \/ Release
    \/ Save

SpecEdit == InitEdit /\ [][NextEdit]_vars

\* a profile with two tiles on the 200x100 screen, its leaves being labelled
InitLabels == Constructed(<<200, 100>>, TileNames, <<>>)

\* the profile is loaded once; the session then runs until the leaf ids are
\* used up
FirstLoad == ~has_profile /\ Load

NextLabels ==
    \/ FirstLoad
    \/ SplitWithin(MaxLeavesLabels)
    \/ CombineWithin
    \/ Assign

SpecLabels == InitLabels /\ [][NextLabels]_vars

\* a left click on a leaf, or on no leaf at all
Select ==
    \E lid \in LeafIds(root) \cup { -1 } :
        MousePressLeaf(lid) /\ UNCHANGED << moves, store_vars >>

\* the handlers that write the selection or replace leaves
NextSelect ==
    \/ Reload
    \/ Select
    \/ SplitWithin(MaxLeaves)
    \/ CombineWithin

SpecSelect == InitEdit /\ [][NextSelect]_vars

\* the profile of a fresh configuration: no layout stored for the monitor
InitLayouts == ConstructedBeside(<<200, 100>>, {}, << >>, NoLayouts)

LayoutNameInputs == { "", "Alt", "Default", "Tall" }

\* slot lists to store: none, and the whole 200x100 screen as one slot
SlotLists ==
    { << >>, << [x |-> 0, y |-> 0, w |-> 200, h |-> 100, tile_name |-> ""] >> }

LayoutEvent(op, name, before) == [op |-> op, name |-> name, before |-> before]

\* a call on the profile that leaves this entry; the canvas is not involved
LayoutStep(info, event) ==
    /\ layout_info' = info
    /\ layout_slots' = LayoutSlotsGet(info).value
    /\ last_event' = event
    /\ UNCHANGED << screen, has_profile, tile_gap, tile_geom, gap, root, next_leaf_id,
                    leaf_rects, split_lines, selected_leaf_id, active_split_node,
                    moves, config, kwin_rules >>

NewLayout ==
    \E name \in LayoutNameInputs :
        LayoutStep(CreateEmptyLayout(layout_info, name),
                   LayoutEvent("create_empty_layout", name, layout_info))

DropLayout ==
    \E name \in LayoutNameInputs :
        LayoutStep(DeleteLayoutByName(layout_info, name),
                   LayoutEvent("delete_layout_by_name", name, layout_info))

Rename ==
    \E old_name \in LayoutNameInputs, new_name \in LayoutNameInputs :
        LayoutStep(RenameLayout(layout_info, old_name, new_name),
                   LayoutEvent("rename_layout", << old_name, new_name >>, layout_info))

StoreSlots ==
    \E value \in SlotLists :
        LayoutStep(LayoutSlotsSet(layout_info, value),
                   LayoutEvent("set_layout_slots", "", layout_info))

SwitchLayout ==
    \E name \in LayoutNameInputs :
        LayoutStep(CurrentLayoutNameSet(layout_info, name),
                   LayoutEvent("set_current_layout_name", name, layout_info))

ReadSlots ==
    LayoutStep(LayoutSlotsGet(layout_info).info,
               LayoutEvent("layout_slots", "", layout_info))

ReadNames ==
    LayoutStep(LayoutNamesGet(layout_info).info,
               LayoutEvent("layout_names", "", layout_info))

ReadCurrent ==
    LayoutStep(CurrentLayoutNameGet(layout_info).info,
               LayoutEvent("current_layout_name", "", layout_info))

\* the layout management of a profile, reads included: the getters write too
NextLayouts ==
    \/ NewLayout
    \/ DropLayout
    \/ Rename
    \/ StoreSlots
    \/ SwitchLayout
    \/ ReadSlots
    \/ ReadNames
    \/ ReadCurrent

SpecLayouts == InitLayouts /\ [][NextLayouts]_vars

\* four columns, the third 10 wide: dividers at 108, 400 and 410
FourColumns ==
    << [x |-> 0, y |-> 0, w |-> 108, h |-> 600, tile_name |-> ""],
       [x |-> 108, y |-> 0, w |-> 292, h |-> 600, tile_name |-> ""],
       [x |-> 400, y |-> 0, w |-> 10, h |-> 600, tile_name |-> ""],
       [x |-> 410, y |-> 0, w |-> 490, h |-> 600, tile_name |-> ""] >>

InitSnap == Constructed(<<900, 600>>, {}, FourColumns)

\* loading that layout, splitting one of its columns and dragging the dividers
NextSnap ==
    \/ Load
    \/ SplitWithin(MaxLeavesSnap)
    \/ Grab
    \/ Drag
    \/ Release

SpecSnap == InitSnap /\ [][NextSnap]_vars

\* the tile maps the editor can leave in a profile
TileMaps == UNION { [S -> Matches] : S \in SUBSET TileNames }

Edit ==
    \E name \in ProfileNames, tiles \in TileMaps :
        EditTiles(name, tiles) /\ UNCHANGED << canvas_vars, layout_info >>

Apply == \E name \in ProfileNames : ApplyProfileRules(name) /\ UNCHANGED << canvas_vars, layout_info >>

Remove == \E name \in ProfileNames : RemoveProfileRules(name) /\ UNCHANGED << canvas_vars, layout_info >>

\* editing the profiles and applying or removing their rules
NextRules ==
    \/ Edit
    \/ Apply
    \/ Remove

SpecRules == Init /\ [][NextRules]_vars

-----------------------------------------------------------------------------
(* Properties of the derived geometry. *)

\* the x and y edges of the leaf rectangles and of the screen
XEdges == { leaf_rects[i].x : i \in 1..Len(leaf_rects) }
          \cup { RAdd(leaf_rects[i].x, leaf_rects[i].w) : i \in 1..Len(leaf_rects) }
          \cup { R(0), R(screen[1]) }

YEdges == { leaf_rects[i].y : i \in 1..Len(leaf_rects) }
          \cup { RAdd(leaf_rects[i].y, leaf_rects[i].h) : i \in 1..Len(leaf_rects) }
          \cup { R(0), R(screen[2]) }

\* the leaf rectangle i holds the grid cell whose lower corner is (cx, cy)
HoldsCell(i, cx, cy) ==
    /\ RLe(leaf_rects[i].x, cx) /\ RLt(cx, RAdd(leaf_rects[i].x, leaf_rects[i].w))
    /\ RLe(leaf_rects[i].y, cy) /\ RLt(cy, RAdd(leaf_rects[i].y, leaf_rects[i].h))

\* the leaf rectangle i lies inside the screen rectangle and is not empty
InsideScreen(i) ==
    /\ RLe(R(0), leaf_rects[i].x) /\ RLe(R(0), leaf_rects[i].y)
    /\ RLt(R(0), leaf_rects[i].w) /\ RLt(R(0), leaf_rects[i].h)
    /\ RLe(RAdd(leaf_rects[i].x, leaf_rects[i].w), R(screen[1]))
    /\ RLe(RAdd(leaf_rects[i].y, leaf_rects[i].h), R(screen[2]))

\* C1: whenever a tree is present, the leaf rectangles tile the screen
\* rectangle: each lies inside it, and every cell of the grid drawn by all
\* their edges is held by exactly one leaf rectangle (no overlap, no hole)
C1_Tiling ==
    root.type # "none" =>
        /\ Len(leaf_rects) = NumLeaves(root)
        /\ \A i \in 1..Len(leaf_rects) : InsideScreen(i)
        /\ \A cx \in XEdges, cy \in YEdges :
              (RLt(cx, R(screen[1])) /\ RLt(cy, R(screen[2])))
              => Cardinality({ i \in 1..Len(leaf_rects) : HoldsCell(i, cx, cy) }) = 1

\* three leaves, just after a divider was moved
C1_Witness ==
    /\ last_event.op = "move"
    /\ Len(leaf_rects) = 3
    /\ \E i \in 1..Len(split_lines) : split_lines[i].orientation = "v"
    /\ \E i \in 1..Len(split_lines) : split_lines[i].orientation = "h"

\* along its own axis: where a split's parent region starts, how long it is,
\* where the divider lies, and how long the two child regions are
AxisLo(l) == IF l.orientation = "v" THEN l.parent_x ELSE l.parent_y
AxisDim(l) == IF l.orientation = "v" THEN l.parent_w ELSE l.parent_h
AxisPos(l) == IF l.orientation = "v" THEN l.x1 ELSE l.y1
FirstChild(l) == RSub(AxisPos(l), AxisLo(l))
SecondChild(l) == RSub(RAdd(AxisLo(l), AxisDim(l)), AxisPos(l))

\* the shortest parent region in which two children of MinLeafSize fit under
\* the 0.49 cap: MinLeafSize / 0.49
RoomyParent == RDiv(R(MinLeafSize), Frac(49, 100))

LeavesBelow(path) ==
    { i \in 1..Len(leaf_rects) : leaf_rects[i].id \in LeafIds(NodeAt(root, path)) }

\* C3 as stated: after a divider was moved, no leaf on either side of it,
\* nested leaves included, is shorter than min_leaf_pixels along the drag axis
C3_DragKeepsMinLeaf ==
    (last_event.op = "move" /\ active_split_node.kind = "node")
    => \A i \in LeavesBelow(active_split_node.path) :
          RLe(R(MinLeafSize),
              IF active_split_node.orientation = "v"
              THEN leaf_rects[i].w ELSE leaf_rects[i].h)

\* C4: the ratio stored on every split node lies between min_ratio and
\* 1 - min_ratio, min_ratio being min_leaf_pixels over the parent's extent along
\* the split axis, held between 0.01 and 0.49
C4_RatioInRange ==
    \A i \in 1..Len(split_lines) :
        LET l == split_lines[i]
            dim == IF RLt(AxisDim(l), R(1)) THEN R(1) ELSE AxisDim(l)
            raw == RDiv(R(MinLeafSize), dim)
            min_ratio == IF RLt(raw, Frac(1, 100)) THEN Frac(1, 100)
                         ELSE IF RLt(Frac(49, 100), raw) THEN Frac(49, 100) ELSE raw
            ratio == NodeAt(root, l.node).ratio
        IN  /\ NodeAt(root, l.node).type = "split"
            /\ RLe(min_ratio, ratio)
            /\ RLe(ratio, RSub(R(1), min_ratio))

\* an ancestor's divider was just moved and a nested split sits at the end of
\* its range: the ratio it stores equals min_ratio of its parent's new extent
C4_Witness ==
    /\ last_event.op = "move"
    /\ active_split_node.kind = "node"
    /\ \E i \in 1..Len(split_lines) :
          LET l == split_lines[i]
          IN  /\ l.node # active_split_node.path
              /\ Len(l.node) > Len(active_split_node.path)
              /\ l.orientation = active_split_node.orientation
              /\ AxisDim(l) = R(MinLeafSize)
              /\ NodeAt(root, l.node).ratio = Frac(49, 100)

-----------------------------------------------------------------------------
(* Properties of split and combine. *)

\* the combine steps the context menu would offer inside the region at path
OfferedBelow(path) ==
    { q \in Range(SplitPaths(root, <<>>)) :
         IsPrefix(path, q) /\ CanCombine(NodeAt(root, q), leaf_rects) }

\* the leaf at path has the rectangle of rect
SameRectAt(path, rect) ==
    /\ NodeAt(root, path).type = "leaf"
    /\ LET now == RectOf(leaf_rects, NodeAt(root, path).id)
       IN  /\ now # <<>>
           /\ now[1].x = rect.x /\ now[1].y = rect.y
           /\ now[1].w = rect.w /\ now[1].h = rect.h

\* the region cut up by the last split, while only combines inside it followed
LastChain == ChainOf(last_event)

\* C5 as stated: after a leaf was split into N parts, combining pairs can
\* always be carried on until one leaf is left, and that leaf has the original
\* rectangle
C5_AsClaimed ==
    LastChain # NoChain =>
        IF LastChain.left = 1
        THEN SameRectAt(LastChain.path, LastChain.before)
        ELSE OfferedBelow(LastChain.path) # {}

\* C5: after a leaf was split into 2 parts the combine of the two parts is
\* offered, and taking it at once leaves one leaf with the original rectangle
C5_SplitInTwoRoundTrip ==
    (LastChain # NoChain /\ LastChain.count = 2) =>
        IF LastChain.left = 1
        THEN SameRectAt(LastChain.path, LastChain.before)
        ELSE LastChain.path \in OfferedBelow(LastChain.path)

\* a nested leaf was split in two and the two parts were combined again
C5_Witness ==
    /\ last_event.op = "combine"
    /\ LastChain # NoChain
    /\ LastChain.count = 2
    /\ LastChain.left = 1
    /\ LastChain.path # <<>>
    /\ SameRectAt(LastChain.path, LastChain.before)

\* C6 as stated: a saved layout that is loaded and exported again gives the
\* same set of slots (x, y, w, h and tile name) as the one that was saved
C6_SaveLoadRoundTrip ==
    (last_event.op = "set_profile" /\ layout_slots # <<>>)
    => Range(ExportSlotsForProfile(leaf_rects)) = Range(layout_slots)

\* the leaf rectangles of the parts made by the last split, in chain order
PartsOfLastSplit ==
    LET ps == LeafPaths(NodeAt(root, last_event.path), last_event.path)
    IN  [i \in 1..Len(ps) |-> RectOf(leaf_rects, NodeAt(root, ps[i]).id)[1]]

\* C7 as stated: right after a leaf was split into count parts, the parts
\* have equal extents along the split axis, one count-th of the original
\* leaf's extent each, and keep its extent across
C7_EqualParts ==
    last_event.op = "split" =>
        /\ Len(PartsOfLastSplit) = last_event.count
        /\ \A i \in 1..Len(PartsOfLastSplit) :
              LET part == PartsOfLastSplit[i]
                  before == last_event.before
              IN  IF last_event.horizontal
                  THEN /\ part.h = RDiv(before.h, R(last_event.count))
                       /\ part.w = before.w
                  ELSE /\ part.w = RDiv(before.w, R(last_event.count))
                       /\ part.h = before.h

\* the two children of this node are leaves
BothLeaves(node) ==
    node.type = "split" /\ node.first.type = "leaf" /\ node.second.type = "leaf"

\* the two leaf children of this node have rectangles of the same width and
\* the same height, up to 1e-3
EqualLeafSizes(node) ==
    LET r1 == RectOf(leaf_rects, node.first.id)
        r2 == RectOf(leaf_rects, node.second.id)
        near(a, b) == IF RLe(a, b) THEN RLt(RSub(b, a), Frac(1, 1000))
                      ELSE RLt(RSub(a, b), Frac(1, 1000))
    IN  /\ r1 # <<>> /\ r2 # <<>>
        /\ near(r1[1].w, r2[1].w)
        /\ near(r1[1].h, r2[1].h)

\* C8: a combine asked for on a divider removes the split exactly when both
\* children of the split are leaves whose rectangles have the same width and
\* height within 1e-3; otherwise the tree stays as it was
C8_CombineOnlyEqualLeaves ==
    [][ last_event'.op \in { "combine", "combine_refused" } =>
          LET node == NodeAt(root, last_event'.path)
          IN  IF BothLeaves(node) /\ EqualLeafSizes(node)
              THEN /\ last_event'.op = "combine"
                   /\ NodeAt(root', last_event'.path).type = "leaf"
                   /\ NumLeaves(root') = NumLeaves(root) - 1
              ELSE /\ last_event'.op = "combine_refused"
                   /\ root' = root
                   /\ next_leaf_id' = next_leaf_id ]_vars

\* a combine was refused on two sibling leaves of different size
C8_Witness ==
    /\ last_event.op = "combine_refused"
    /\ BothLeaves(NodeAt(root, last_event.path))
    /\ ~EqualLeafSizes(NodeAt(root, last_event.path))

\* the tree, the id counter, the derived geometry and the tiles stay as they are
TreeUntouched ==
    /\ root' = root
    /\ next_leaf_id' = next_leaf_id
    /\ leaf_rects' = leaf_rects
    /\ split_lines' = split_lines
    /\ tile_geom' = tile_geom

\* C9: a split with a count below 2 or an unknown leaf id, a combine on a
\* split whose children are not both leaves, and a drag whose grabbed node is
\* no longer in the tree all leave the tree as it was
C9_InvalidRequestsIgnored ==
    [][ /\ \A lid \in LeafIdInputs, count \in Counts, horizontal \in BOOLEAN :
             ((count < 2 \/ lid \notin LeafIds(root))
              /\ SplitLeafInto(lid, count, horizontal)) => TreeUntouched
        /\ \A k \in 1..Len(split_lines) :
             (~BothLeaves(NodeAt(root, split_lines[k].node))
              /\ ContextMenuCombine(k)) => TreeUntouched
        /\ \A delta \in Deltas :
             (active_split_node.kind = "detached" /\ MouseMove(delta))
             => TreeUntouched ]_vars

\* a drag was refused because the grabbed split had been combined away
C9_Witness ==
    /\ last_event.op = "move_refused"
    /\ active_split_node.kind = "detached"
    /\ root.type # "none"

-----------------------------------------------------------------------------
(* Properties of the gap projection. *)

\* the handlers that end in _push_geometry_into_tiles
Pushed == last_event.op \in { "split", "combine", "assign", "gap_changed" }

\* the pad of one side: the full gap on the screen border (within 0.5), half
\* the gap elsewhere
SidePad(edge, border) ==
    LET off == IF RLe(edge, border) THEN RSub(border, edge) ELSE RSub(edge, border)
    IN  IF RLe(off, Frac(1, 2)) THEN R(gap) ELSE Frac(gap, 2)

\* the extent left after both pads, the pads taking at most extent - 1, and
\* never less than 1
PaddedExtent(extent, pad_a, pad_b) ==
    LET room == IF RLt(extent, R(1)) THEN R(0) ELSE RSub(extent, R(1))
        total == IF RLe(RAdd(pad_a, pad_b), room) THEN RAdd(pad_a, pad_b) ELSE room
        rest == RSub(extent, total)
    IN  IF RLt(rest, R(1)) THEN R(1) ELSE rest

\* the tile rectangle the gap projection is to give a leaf rectangle
Projected(rect) ==
    LET left_pad == SidePad(rect.x, R(0))
        right_pad == SidePad(RAdd(rect.x, rect.w), R(screen[1]))
        top_pad == SidePad(rect.y, R(0))
        bottom_pad == SidePad(RAdd(rect.y, rect.h), R(screen[2]))
    IN  << Round(RAdd(rect.x, left_pad)), Round(RAdd(rect.y, top_pad)),
           Round(PaddedExtent(rect.w, left_pad, right_pad)),
           Round(PaddedExtent(rect.h, top_pad, bottom_pad)) >>

\* C10: after a handler that pushes the geometry, the tile of every labeled
\* leaf is the leaf's rectangle padded by the full gap on each side lying on
\* the screen border (within 0.5) and by half the gap on each other side:
\* (x + left_pad, y + top_pad, max(1, w - total_w_pad), max(1, h - total_h_pad)),
\* rounded; on the 200-wide screen with gap 10 the leaves (0,0,100,100) and
\* (100,0,100,100) give tiles with x = 10, w = 85 and x = 105, w = 85
C10_GapProjection ==
    Pushed =>
        \A i \in 1..Len(leaf_rects) :
            LET rect == leaf_rects[i]
            IN  (rect.tile_name \in DOMAIN tile_geom) =>
                  /\ tile_geom[rect.tile_name] = Projected(rect)
                  /\ (screen[1] = 200 /\ gap = 10 /\ rect.w = R(100) /\ rect.x = R(0))
                     => (tile_geom[rect.tile_name][1] = 10
                         /\ tile_geom[rect.tile_name][3] = 85)
                  /\ (screen[1] = 200 /\ gap = 10 /\ rect.w = R(100) /\ rect.x = R(100))
                     => (tile_geom[rect.tile_name][1] = 105
                         /\ tile_geom[rect.tile_name][3] = 85)

\* both halves of the 200-wide screen are labeled, with gap 10
C10_Witness ==
    /\ Pushed
    /\ screen = <<200, 100>>
    /\ gap = 10
    /\ \E i, j \in 1..Len(leaf_rects) :
          /\ leaf_rects[i].x = R(0) /\ leaf_rects[i].w = R(100)
          /\ leaf_rects[i].h = R(100)
          /\ leaf_rects[j].x = R(100) /\ leaf_rects[j].w = R(100)
          /\ leaf_rects[i].tile_name = "A"
          /\ leaf_rects[j].tile_name = "B"
          /\ tile_geom["A"] = <<10, 10, 85, 80>>
          /\ tile_geom["B"] = <<105, 10, 85, 80>>

\* a leaf whose pads are cut down to leave it 1 pixel: gap 60 on a 50-high leaf
C10_HugeGapReached ==
    /\ Pushed
    /\ gap = 60
    /\ \E i \in 1..Len(leaf_rects) :
          /\ leaf_rects[i].tile_name \in DOMAIN tile_geom
          /\ leaf_rects[i].h = R(50)
          /\ tile_geom[leaf_rects[i].tile_name][4] = 1

---------------------------------------------------------------------------
(* Gaps between the projected tiles. *)

Labeled(rect) == rect.tile_name \in DOMAIN tile_geom

TileOf(rect) == tile_geom[rect.tile_name]

\* the open spans (lo, lo + len) and (lo2, lo2 + len2) have a point in common
SpansOverlap(lo, len, lo2, len2) ==
    RLt(lo, RAdd(lo2, len2)) /\ RLt(lo2, RAdd(lo, len))

\* C11: after a handler that pushes the geometry, for every gap, the tiles of
\* two labeled leaves that share an interior edge lie exactly gap apart across
\* that edge, and a tile lies exactly gap away from every screen edge its leaf
\* touches
C11_UniformGaps ==
    Pushed =>
        \A i \in 1..Len(leaf_rects) :
            LET a == leaf_rects[i]
            IN  Labeled(a) =>
                  /\ a.x = R(0) => TileOf(a)[1] = gap
                  /\ a.y = R(0) => TileOf(a)[2] = gap
                  /\ RAdd(a.x, a.w) = R(screen[1])
                         => screen[1] - (TileOf(a)[1] + TileOf(a)[3]) = gap
                  /\ RAdd(a.y, a.h) = R(screen[2])
                         => screen[2] - (TileOf(a)[2] + TileOf(a)[4]) = gap
                  /\ \A j \in 1..Len(leaf_rects) :
                        LET b == leaf_rects[j]
                        IN  Labeled(b) =>
                              /\ (RAdd(a.x, a.w) = b.x /\ SpansOverlap(a.y, a.h, b.y, b.h))
                                    => TileOf(b)[1] - (TileOf(a)[1] + TileOf(a)[3]) = gap
                              /\ (RAdd(a.y, a.h) = b.y /\ SpansOverlap(a.x, a.w, b.x, b.w))
                                    => TileOf(b)[2] - (TileOf(a)[2] + TileOf(a)[4]) = gap

---------------------------------------------------------------------------
(* Reconstruction from saved rectangles. *)

Loaded == last_event.op = "set_profile"

SlotLo(r, axis) == IF axis = "v" THEN r.x ELSE r.y
SlotHi(r, axis) == IF axis = "v" THEN r.x + r.w ELSE r.y + r.h

SetMin(S) == CHOOSE a \in S : \A b \in S : a <= b
SetMax(S) == CHOOSE a \in S : \A b \in S : b <= a

\* the region the saved rectangles span on an axis: <<origin, extent>>
Region(slots, axis) ==
    LET lo == SetMin({ SlotLo(slots[i], axis) : i \in 1..Len(slots) })
        hi == SetMax({ SlotHi(slots[i], axis) : i \in 1..Len(slots) })
    IN  << lo, hi - lo >>

\* rectangle edges strictly inside the region by more than 0.5
Inner(slots, axis) ==
    { c \in { SlotLo(slots[i], axis) : i \in 1..Len(slots) }
            \cup { SlotHi(slots[i], axis) : i \in 1..Len(slots) } :
        /\ 2 * Region(slots, axis)[1] + 1 < 2 * c
        /\ 2 * c < 2 * (Region(slots, axis)[1] + Region(slots, axis)[2]) - 1 }

OnNearSide(r, axis, c) == 2 * SlotHi(r, axis) <= 2 * c + 1
OnFarSide(r, axis, c) == ~OnNearSide(r, axis, c) /\ 2 * SlotLo(r, axis) >= 2 * c - 1

\* the candidate lines that no rectangle crosses and that have both sides
\* non-empty
CleanCuts(slots, axis) ==
    { c \in Inner(slots, axis) :
        /\ \A i \in 1..Len(slots) :
               OnNearSide(slots[i], axis, c) \/ OnFarSide(slots[i], axis, c)
        /\ \E i \in 1..Len(slots) : OnNearSide(slots[i], axis, c)
        /\ \E i \in 1..Len(slots) : OnFarSide(slots[i], axis, c) }

\* the root is a split along this axis at the smallest clean line
SplitAtFirstCut(slots, axis) ==
    /\ root.type = "split"
    /\ root.orientation = axis
    /\ root.ratio = Frac(SetMin(CleanCuts(slots, axis)) - Region(slots, axis)[1],
                         Region(slots, axis)[2])

\* C12: loading two or more saved rectangles gives a vertical split at the
\* smallest clean candidate x, with ratio (line - region_x) / region_w, and a
\* horizontal split, at the smallest clean y, only when no vertical candidate
\* is clean
C12_FirstCleanLine ==
    (Loaded /\ Len(layout_slots) >= 2) =>
        /\ CleanCuts(layout_slots, "v") # {} => SplitAtFirstCut(layout_slots, "v")
        /\ (CleanCuts(layout_slots, "v") = {} /\ CleanCuts(layout_slots, "h") # {})
              => SplitAtFirstCut(layout_slots, "h")
        /\ (root.type = "split" /\ root.orientation = "h")
              => CleanCuts(layout_slots, "v") = {}

\* a list whose smallest candidate x is crossed, so that a later one is taken
C12_Witness ==
    /\ Loaded
    /\ Len(layout_slots) = 3
    /\ root.type = "split" /\ root.orientation = "v"
    /\ SetMin(Inner(layout_slots, "v")) < SetMin(CleanCuts(layout_slots, "v"))

SlotLabels(slots) == { slots[i].tile_name : i \in 1..Len(slots) }

NoCleanCut(slots) == CleanCuts(slots, "v") = {} /\ CleanCuts(slots, "h") = {}

\* C13: loading two or more saved rectangles that no vertical and no horizontal
\* candidate line partitions cleanly gives a single leaf, labeled with the
\* common label when all rectangles carry the same label and unlabeled
\* otherwise (overlapping and non-tiling lists included)
C13_FallbackLeaf ==
    (Loaded /\ Len(layout_slots) >= 2 /\ NoCleanCut(layout_slots)) =>
        /\ root.type = "leaf"
        /\ Len(leaf_rects) = 1
        /\ root.tile_name = IF Cardinality(SlotLabels(layout_slots)) = 1
                             THEN CHOOSE n \in SlotLabels(layout_slots) : TRUE
                             ELSE ""

\* three rectangles labeled "A" without a clean line: the fallback leaf is "A"
C13_Witness ==
    /\ Loaded
    /\ Len(layout_slots) = 3
    /\ NoCleanCut(layout_slots)
    /\ SlotLabels(layout_slots) = { "A" }
    /\ root = Leaf(0, "A")

Overlap(a, b) ==
    /\ a.x < b.x + b.w /\ b.x < a.x + a.w
    /\ a.y < b.y + b.h /\ b.y < a.y + a.h

Area(slots) ==
    LET first == IF Len(slots) >= 1 THEN slots[1].w * slots[1].h ELSE 0
        second == IF Len(slots) >= 2 THEN slots[2].w * slots[2].h ELSE 0
        third == IF Len(slots) >= 3 THEN slots[3].w * slots[3].h ELSE 0
    IN  first + second + third

\* three non-overlapping rectangles that fill their bounding box but for a
\* rectangle in one of its corners
LShape(slots) ==
    /\ Len(slots) = 3
    /\ \A i, j \in 1..3 : i # j => ~Overlap(slots[i], slots[j])
    /\ LET bx == Region(slots, "v")
           by == Region(slots, "h")
       IN  \E cx \in Inner(slots, "v"), cy \in Inner(slots, "h") :
           \E kx \in { << bx[1], cx - bx[1] >>, << cx, bx[1] + bx[2] - cx >> },
              ky \in { << by[1], cy - by[1] >>, << cy, by[1] + by[2] - cy >> } :
               LET corner == [x |-> kx[1], y |-> ky[1], w |-> kx[2], h |-> ky[2]]
               IN  /\ \A i \in 1..3 : ~Overlap(slots[i], corner)
                   /\ Area(slots) + corner.w * corner.h = bx[2] * by[2]

RECURSIVE LeafNames(_)
LeafNames(node) ==
    IF node.type = "leaf" THEN << node.tile_name >>
    ELSE LeafNames(node.first) \o LeafNames(node.second)

\* C14 as claimed: three non-overlapping rectangles in an L shape with three
\* different labels are loaded as one single unlabeled leaf
C14_AsClaimed ==
    (Loaded /\ Cardinality(SlotLabels(layout_slots)) = 3 /\ LShape(layout_slots)) =>
        root = Leaf(0, "")

\* C14: three non-overlapping rectangles in an L shape with three different
\* labels are loaded as a tree of two splits and three leaves that carry the
\* three labels; no fallback leaf is made
C14_LShapeSplits ==
    (Loaded /\ Cardinality(SlotLabels(layout_slots)) = 3 /\ LShape(layout_slots)) =>
        /\ root.type = "split"
        /\ ~NoCleanCut(layout_slots)
        /\ Len(LeafNames(root)) = 3
        /\ Range(LeafNames(root)) = SlotLabels(layout_slots)

\* the L of (0,0,50,60) "A", (50,0,150,60) "B" and (0,60,50,40) "C"
C14_Witness ==
    /\ Loaded
    /\ layout_slots = << [x |-> 0, y |-> 0, w |-> 50, h |-> 60, tile_name |-> "A"],
                         [x |-> 50, y |-> 0, w |-> 150, h |-> 60, tile_name |-> "B"],
                         [x |-> 0, y |-> 60, w |-> 50, h |-> 40, tile_name |-> "C"] >>
    /\ LShape(layout_slots)
    /\ root.type = "split" /\ root.orientation = "v" /\ root.ratio = Frac(1, 4)
    /\ LeafNames(root) = << "A", "C", "B" >>

\* a tree without its leaf ids
RECURSIVE Shape(_)
Shape(node) ==
    IF node.type = "leaf" THEN << node.tile_name >>
    ELSE << node.orientation, node.ratio, Shape(node.first), Shape(node.second) >>

Reordered(slots, p) == [i \in 1..Len(slots) |-> slots[p[i]]]

\* C15: the tree built from the saved rectangles listed in any other order has
\* the same shape, orientations, ratios and leaf labels
C15_OrderIndependent ==
    Loaded =>
        \A p \in Permutations(1..Len(layout_slots)) :
            /\ Shape(InitTreeFromProfileLayout(Reordered(layout_slots, p)).node)
                  = Shape(InitTreeFromProfileLayout(layout_slots).node)
            /\ Shape(RebuildFromTree(
                         InitTreeFromProfileLayout(Reordered(layout_slots, p)).node,
                         screen).node) = Shape(root)

\* three different rectangles with three labels, one split and a fallback leaf
C15_Witness ==
    /\ Loaded
    /\ Len(layout_slots) = 3
    /\ \A i, j \in 1..3 : i # j => layout_slots[i] # layout_slots[j]
    /\ Cardinality(SlotLabels(layout_slots)) = 3
    /\ root.type = "split"
    /\ Len(LeafNames(root)) = 2

---------------------------------------------------------------------------
(* Leaf ids. *)

DistinctLeafIds(node) == Cardinality(LeafIds(node)) = NumLeaves(node)

\* C16: in every step that is not a load of a tree, the leaf ids of the tree
\* stay pairwise distinct and below the allocator's next value, the allocator
\* does not go back, and every leaf that is new in the tree has an id the
\* allocator had not handed out before the step; so an id that left the tree
\* through a split or a combine is never given to a later leaf
C16_LeafIdsFresh ==
    [][ last_event'.op \notin { "set_profile", "set_profile_none" } =>
          /\ DistinctLeafIds(root')
          /\ \A id \in LeafIds(root') : id < next_leaf_id'
          /\ next_leaf_id' >= next_leaf_id
          /\ \A id \in LeafIds(root') \ LeafIds(root) : id >= next_leaf_id ]_vars

\* split in two, then combined: ids 1 and 2 have left the tree, the leaf is 3
C16_Witness ==
    /\ last_event.op = "combine"
    /\ root.type = "leaf" /\ root.id = 3
    /\ next_leaf_id = 4

---------------------------------------------------------------------------
(* Magnetic snap. *)

PosOf(line) == IF line.orientation = "v" THEN line.x1 ELSE line.y1

\* the origin and the extent of the grabbed divider's parent along its axis
ParentLo(line) == IF line.orientation = "v" THEN line.parent_x ELSE line.parent_y
ParentDim(line) == IF line.orientation = "v" THEN line.parent_w ELSE line.parent_h

\* the proposed position: old position plus delta, kept min_leaf_pixels inside
\* the parent
Proposed(line, delta) ==
    LET lo == RAdd(ParentLo(line), R(MinLeafSize))
        hi == RSub(RAdd(ParentLo(line), ParentDim(line)), R(MinLeafSize))
        p == RAdd(PosOf(line), R(delta))
    IN  IF RLt(p, lo) THEN lo ELSE IF RLt(hi, p) THEN hi ELSE p

\* the other dividers of the same orientation whose span overlaps the parent
\* rectangle of divider k on the other axis and that lie within snap_distance
\* of the proposed position
NearDividers(lines, k, delta) ==
    { j \in 1..Len(lines) :
        /\ j # k
        /\ lines[j].orientation = lines[k].orientation
        /\ IF lines[k].orientation = "v"
           THEN SpansOverlap(lines[j].y1, RSub(lines[j].y2, lines[j].y1),
                             lines[k].parent_y, lines[k].parent_h)
           ELSE SpansOverlap(lines[j].x1, RSub(lines[j].x2, lines[j].x1),
                             lines[k].parent_x, lines[k].parent_w)
        /\ RLe(RAbs(RSub(PosOf(lines[j]), Proposed(lines[k], delta))), R(SnapDist)) }

\* a position brought into the range the ratio clamp leaves to a divider
WithinRatioClamp(pos, line) ==
    LET lo == RAdd(ParentLo(line), RMul(MinRatio(ParentDim(line)), ParentDim(line)))
        hi == RSub(RAdd(ParentLo(line), ParentDim(line)),
                   RMul(MinRatio(ParentDim(line)), ParentDim(line)))
    IN  IF RLt(pos, lo) THEN lo ELSE IF RLt(hi, pos) THEN hi ELSE pos

\* the position of the grabbed divider after the step
GrabbedPosAfter == PosOf(split_lines'[LineOf(split_lines', active_split_node)])

\* C17 as claimed: in a drag step whose proposed position is within
\* snap_distance of such a divider, the grabbed divider ends exactly on the
\* position of one of them
C17_AsClaimed ==
    [][ \A delta \in Deltas :
          (MouseMove(delta) /\ last_event'.op = "move") =>
              LET lines == RebuildFromTree(root, screen).split_lines
                  k == LineOf(lines, active_split_node)
              IN  NearDividers(lines, k, delta) # {} =>
                      \E j \in NearDividers(lines, k, delta) :
                          GrabbedPosAfter = PosOf(lines[j]) ]_vars

\* C17: in a drag step whose proposed position is within snap_distance of such
\* a divider, the grabbed divider ends on the position that the first of them
\* in list order had when the step began, brought into the range of the ratio
\* clamp of the grabbed divider's parent; it ends exactly on that position
\* whenever the position lies in that range
C17_SnapThenClamp ==
    [][ \A delta \in Deltas :
          (MouseMove(delta) /\ last_event'.op = "move") =>
              LET lines == RebuildFromTree(root, screen).split_lines
                  k == LineOf(lines, active_split_node)
                  near == NearDividers(lines, k, delta)
                  first == CHOOSE j \in near : \A i \in near : j <= i
              IN  near # {} =>
                      GrabbedPosAfter = WithinRatioClamp(PosOf(lines[first]), lines[k])
        ]_vars

\* three columns of 300 on the 900-wide screen: the first divider, dragged by
\* 295 to 595, has ended on 600, where the second divider was
C17_Witness ==
    /\ last_event = MoveEvent(295)
    /\ screen = << 900, 600 >>
    /\ active_split_node = Active(<<>>, "v")
    /\ root.type = "split" /\ root.ratio = Frac(2, 3)
    /\ root.second.type = "split" /\ root.second.orientation = "v"
    /\ root.second.ratio = Frac(1, 2)

---------------------------------------------------------------------------
(* The edit session. *)

DividerGrabbed == active_split_node.kind # "none"

\* the dividers of the tree that the grab refers to
GrabbedDividers ==
    { k \in 1..Len(split_lines) :
        /\ active_split_node.kind = "node"
        /\ split_lines[k].node = active_split_node.path }

\* C18: the session is Idle -> DividerGrabbed -> Idle.  The grab names at most
\* one divider of the tree; only a pointer-down on a divider leaves Idle; a
\* pointer-move (accepted or refused) happens, and so changes a ratio, only
\* while a divider is grabbed, and it keeps the grab; the pointer-up ends in
\* Idle and leaves the tree with its ratios, the leaf rectangles, the divider
\* list and the tiles' geometry as they were
C18_EditSession ==
    [][ /\ Cardinality(GrabbedDividers') <= 1
        /\ (active_split_node'.kind = "node" => Cardinality(GrabbedDividers') = 1)
        /\ (~DividerGrabbed /\ DividerGrabbed' => last_event'.op = "press_split")
        /\ (last_event'.op \in { "move", "move_refused" } =>
               /\ DividerGrabbed
               /\ active_split_node' = active_split_node)
        /\ (~DividerGrabbed /\ root' # root =>
               last_event'.op \notin { "move", "move_refused" })
        /\ (last_event'.op = "release" =>
               /\ ~DividerGrabbed'
               /\ root' = root
               /\ leaf_rects' = leaf_rects
               /\ split_lines' = split_lines
               /\ tile_geom' = tile_geom) ]_vars

\* a divider was grabbed and dragged away from the middle, then released
C18_Witness ==
    /\ last_event.op = "release"
    /\ ~DividerGrabbed
    /\ root.type = "split"
    /\ root.ratio \notin { Frac(1, 2), Frac(1, 3) }
    /\ moves > 0

---------------------------------------------------------------------------
(* The cached geometry. *)

\* what derivation of the current tree yields
Derived == RebuildFromTree(root, screen)

\* C19: in every state, and so whenever export, gap projection, hit-testing
\* or a drag step reads them, the cached leaf rectangles and the cached
\* divider list are what derivation of the current tree yields
C19_CacheFresh ==
    /\ leaf_rects = Derived.leaf_rects
    /\ split_lines = Derived.split_lines

\* a layout that was split, dragged and relabelled has been exported
C19_Witness ==
    /\ last_event.op = "save_layout"
    /\ root.type = "split"
    /\ root.ratio \notin { Frac(1, 2), Frac(1, 3) }
    /\ \E i \in 1..Len(leaf_rects) : leaf_rects[i].tile_name = "B"
    /\ layout_slots = ExportSlotsForProfile(Derived.leaf_rects)

---------------------------------------------------------------------------
(* The rule file after a profile was applied. *)

\* C20 as claimed: after apply_profile_rules for a profile, every
\* Onigiri/KWinTiler rule of the rule file belongs to that profile
C20_OnlyAppliedProfile ==
    last_event.op = "apply_profile_rules" =>
        \A d \in Descriptions(kwin_rules) :
            d[1] = "KWinTiler" => d[2] = last_event.profile

---------------------------------------------------------------------------
(* Labels across combine and split. *)

\* C22: a combine that is carried out puts, where the split was, one leaf
\* whose label is the first child's label when that is non-empty and the
\* second child's label otherwise; nothing else of the tree changes
C22_CombineLabel ==
    [][ last_event'.op = "combine" =>
          LET path == last_event'.path
              old == NodeAt(root, path)
              new == NodeAt(root', path)
          IN  /\ old.type = "split"
              /\ old.first.type = "leaf" /\ old.second.type = "leaf"
              /\ new.type = "leaf"
              /\ new.tile_name = IF old.first.tile_name # ""
                                 THEN old.first.tile_name
                                 ELSE old.second.tile_name
              /\ root' = ReplaceAt(root, path, new) ]_vars

\* the leaf left by a combine carries B beside a sibling that carries A
C22_Witness ==
    /\ last_event.op = "combine"
    /\ root.type = "split"
    /\ root.first.type = "leaf" /\ root.first.tile_name = "A"
    /\ last_event.path = << 2 >>
    /\ root.second.type = "leaf" /\ root.second.tile_name = "B"

\* the cached rectangles, after the step, of the leaves of this subtree
NewRects(sub) ==
    { RectOf(leaf_rects', NodeAt(sub, q).id)[1] : q \in Range(LeafPaths(sub, <<>>)) }

\* the rectangle that starts before every other one along the split's axis
Foremost(rects, horizontal) ==
    CHOOSE r \in rects :
        \A o \in rects \ { r } :
            IF horizontal THEN RLt(r.y, o.y) ELSE RLt(r.x, o.x)

\* C23: a split that is carried out on a leaf labelled L leaves L on the
\* leftmost (vertical split) or topmost (horizontal split) of the new leaves,
\* which is the first of them, and no label on the others; outside the leaf
\* that was split the tree, and so every label, stays as it was
C23_SplitLabel ==
    [][ last_event'.op = "split" =>
          LET path == last_event'.path
              old == NodeAt(root, path)
              sub == NodeAt(root', path)
              rects == NewRects(sub)
          IN  /\ old.type = "leaf"
              /\ Cardinality(rects) = last_event'.count
              /\ Foremost(rects, last_event'.horizontal).tile_name = old.tile_name
              /\ Foremost(rects, last_event'.horizontal).id = sub.first.id
              /\ \A r \in rects \ { Foremost(rects, last_event'.horizontal) } :
                     r.tile_name = ""
              /\ ReplaceAt(root', path, old) = root ]_vars

\* a leaf labelled A, beside one labelled B, has been split in two rows
C23_Witness ==
    /\ last_event.op = "split" /\ last_event.horizontal /\ last_event.path = << 2 >>
    /\ root.type = "split" /\ root.orientation = "v"
    /\ root.first.type = "leaf" /\ root.first.tile_name = "B"
    /\ root.second.type = "split"
    /\ root.second.first.tile_name = "A"
    /\ root.second.second.tile_name = ""

---------------------------------------------------------------------------
(* Several dividers within the snap distance. *)

\* how far divider j is from the position proposed for divider k
OffProposed(lines, j, k, delta) == RAbs(RSub(PosOf(lines[j]), Proposed(lines[k], delta)))

\* C24 as claimed: in a drag step with several dividers within snap_distance
\* of the proposed position, one of them closer to it than the first of them
\* in the divider list, the grabbed divider ends on the position the first one
\* had, not on that of the closer one
C24_AsClaimed ==
    [][ \A delta \in Deltas :
          (last_event' = MoveEvent(delta) /\ moves' = moves + 1 /\ MouseMove(delta)) =>
              LET lines == RebuildFromTree(root, screen).split_lines
                  k == LineOf(lines, active_split_node)
                  near == NearDividers(lines, k, delta)
                  first == CHOOSE j \in near : \A i \in near : j <= i
              IN  (\E j \in near : RLt(OffProposed(lines, j, k, delta),
                                        OffProposed(lines, first, k, delta))) =>
                      /\ GrabbedPosAfter = PosOf(lines[first])
                      /\ \A j \in near \ { first } :
                             GrabbedPosAfter # PosOf(lines[j]) ]_vars

\* C24: in such a drag step the grabbed divider ends on the position the first
\* of these dividers in the divider list had, brought into the range of the
\* ratio clamp; when that position lies in the range it ends exactly there and
\* not on the position of the closer one
C24_FirstMatchThenClamp ==
    [][ \A delta \in Deltas :
          (last_event' = MoveEvent(delta) /\ moves' = moves + 1 /\ MouseMove(delta)) =>
              LET lines == RebuildFromTree(root, screen).split_lines
                  k == LineOf(lines, active_split_node)
                  near == NearDividers(lines, k, delta)
                  first == CHOOSE j \in near : \A i \in near : j <= i
                  target == PosOf(lines[first])
              IN  (\E j \in near : RLt(OffProposed(lines, j, k, delta),
                                        OffProposed(lines, first, k, delta))) =>
                      /\ GrabbedPosAfter = WithinRatioClamp(target, lines[k])
                      /\ WithinRatioClamp(target, lines[k]) = target =>
                             \A j \in near : PosOf(lines[j]) # target =>
                                                 GrabbedPosAfter # PosOf(lines[j]) ]_vars

\* the divider at 108, dragged by 300 to 408 with the dividers at 400 and 410
\* within reach, has ended on 400
C24_Witness ==
    /\ last_event = MoveEvent(300)
    /\ moves = 1
    /\ active_split_node = Active(<<>>, "v")
    /\ root.type = "split" /\ root.ratio = Frac(400, 900)

---------------------------------------------------------------------------
(* A drag inside a parent too narrow for two leaves. *)

\* the line of the grabbed divider in the cached divider list
GrabbedLine == split_lines[LineOf(split_lines, active_split_node)]

\* the grabbed divider's parent has less than 2 * min_leaf_pixels along the axis
NarrowParent ==
    /\ LineOf(split_lines, active_split_node) # 0
    /\ RLt(ParentDim(GrabbedLine), R(2 * MinLeafSize))

\* C25: a drag step on a divider whose parent is smaller than
\* 2 * min_leaf_pixels along the drag axis leaves the tree with every stored
\* ratio, the leaf rectangles, the divider list and the tiles as they were
C25_NarrowParentIgnored ==
    [][ (moves' = moves + 1 /\ NarrowParent) =>
          /\ last_event'.op = "move_refused"
          /\ root' = root
          /\ leaf_rects' = leaf_rects
          /\ split_lines' = split_lines
          /\ tile_geom' = tile_geom ]_vars

\* the 10-wide column was split in two columns and its divider dragged
C25_Witness ==
    /\ last_event.op = "move_refused"
    /\ moves > 0
    /\ NarrowParent
    /\ GrabbedLine.orientation = "v"
    /\ GrabbedLine.parent_w = R(10)

---------------------------------------------------------------------------
(* What a drag step leaves alone. *)

\* a tree without its ratios: shape, orientations, leaf ids and labels
RECURSIVE Frame(_)
Frame(node) ==
    IF node.type # "split" THEN node
    ELSE << node.orientation, Frame(node.first), Frame(node.second) >>

\* the splits of the tree other than the grabbed one
OtherSplits == Range(SplitPaths(root, <<>>)) \ { active_split_node.path }

\* the line of the split at this path in the divider list after the step
LineAfter(q) ==
    split_lines'[CHOOSE i \in 1..Len(split_lines') : split_lines'[i].node = q]

\* the leaf rectangles after the grabbed divider is dragged back by delta
DraggedBack(delta) ==
    LET k == LineOf(split_lines', active_split_node)
        nr == DragRatio(split_lines', k, active_split_node.orientation, 0 - delta)
        path == active_split_node.path
    IN  IF nr = <<>> THEN leaf_rects'
        ELSE RebuildFromTree(
                 ReplaceAt(root', path, [NodeAt(root', path) EXCEPT !.ratio = nr[1]]),
                 screen).leaf_rects

\* a drag step by delta that has been carried out
MoveStep(delta) == last_event' = MoveEvent(delta) /\ moves' = moves + 1

MovedExactly(delta) ==
    /\ GrabbedPosAfter
          = RAdd(PosOf(split_lines[LineOf(split_lines, active_split_node)]), R(delta))
    /\ NearDividers(split_lines', LineOf(split_lines', active_split_node), 0 - delta) = {}

---------------------------------------------------------------------------
(* The projected tiles and their leaves. *)

\* the tile of this leaf rectangle lies inside the rectangle
TileInside(rect) ==
    /\ RLe(rect.x, R(TileOf(rect)[1]))
    /\ RLe(rect.y, R(TileOf(rect)[2]))
    /\ RLe(R(TileOf(rect)[1] + TileOf(rect)[3]), RAdd(rect.x, rect.w))
    /\ RLe(R(TileOf(rect)[2] + TileOf(rect)[4]), RAdd(rect.y, rect.h))

\* the tiles of these two leaf rectangles have a point in common
TilesOverlap(a, b) ==
    /\ TileOf(a)[1] < TileOf(b)[1] + TileOf(b)[3]
    /\ TileOf(b)[1] < TileOf(a)[1] + TileOf(a)[3]
    /\ TileOf(a)[2] < TileOf(b)[2] + TileOf(b)[4]
    /\ TileOf(b)[2] < TileOf(a)[2] + TileOf(a)[4]

\* C27: after a handler that pushes the geometry, for every gap >= 0, the tile
\* of every labeled leaf lies inside the leaf's rectangle, and the tiles of
\* two leaves with different labels do not overlap
C27_TileInsideLeaf ==
    Pushed =>
        \A i \in 1..Len(leaf_rects) :
            Labeled(leaf_rects[i]) =>
                /\ TileInside(leaf_rects[i])
                /\ \A j \in 1..Len(leaf_rects) :
                       (Labeled(leaf_rects[j])
                        /\ leaf_rects[j].tile_name # leaf_rects[i].tile_name)
                       => ~TilesOverlap(leaf_rects[i], leaf_rects[j])

---------------------------------------------------------------------------
(* Labels are not duplicated by the edit session. *)

\* the leaves of the tree that carry this label
LeavesNamed(name) ==
    { q \in Range(LeafPaths(root, <<>>)) : NodeAt(root, q).tile_name = name }

\* C28: in a session that starts without a label on two leaves and goes on by
\* splits, combines and menu assignments, no non-empty label is on two leaves
C28_NoDuplicateLabels ==
    \A name \in TileNames : Cardinality(LeavesNamed(name)) <= 1

\* three leaves, A and B both in use, after an assignment
C28_Witness ==
    /\ last_event.op = "assign"
    /\ NumLeaves(root) = 3
    /\ Cardinality(LeavesNamed("A")) = 1
    /\ Cardinality(LeavesNamed("B")) = 1

---------------------------------------------------------------------------
(* The selection across splits and combines. *)

\* C29: a recorded selection is the id of a leaf of the tree
C29_SelectedIsLeaf ==
    selected_leaf_id # -1 => selected_leaf_id \in LeafIds(root)

---------------------------------------------------------------------------
(* The named layouts. *)

\* what layout_names returns now
NamesRead == Range(LayoutNamesGet(layout_info).value)

\* the last call deleted the layout that current_layout_name returned
DeletedCurrent ==
    /\ last_event.op = "delete_layout_by_name"
    /\ last_event.name = CurrentLayoutNameGet(last_event.before).value

\* C21: after any calls of create_empty_layout, delete_layout_by_name,
\* rename_layout and the two setters, layout_names is not empty and the name
\* read from current_layout_name is one of them, whichever is read first; after
\* deleting the current layout the current one is another layout that existed,
\* or Default, new and empty, when none is left
C21_LayoutsConsistent ==
    /\ NamesRead # {}
    /\ CurrentLayoutNameGet(layout_info).value \in NamesRead
    /\ CurrentLayoutNameGet(LayoutNamesGet(layout_info).info).value \in NamesRead
    /\ CurrentLayoutNameGet(layout_info).value
          \in Range(LayoutNamesGet(CurrentLayoutNameGet(layout_info).info).value)
    /\ DeletedCurrent =>
          \/ /\ CurrentLayoutNameGet(layout_info).value
                   \in DOMAIN last_event.before.layouts \ { last_event.name }
             /\ CurrentLayoutNameGet(layout_info).value \in DOMAIN layout_info.layouts
          \/ /\ DOMAIN last_event.before.layouts \subseteq { last_event.name }
             /\ layout_info = StoredAsDefault(<< >>)

\* the current one of several layouts, none called Default, was deleted
C21_Witness ==
    /\ DeletedCurrent
    /\ last_event.name \in DOMAIN last_event.before.layouts
    /\ DOMAIN layout_info.layouts # {}
    /\ "Default" \notin DOMAIN layout_info.layouts

---------------------------------------------------------------------------
(* Applying a profile again. *)

\* the sections of the file that carry this Description
SectionsOf(desc) ==
    { i \in 1..Len(kwin_rules.sections) : kwin_rules.sections[i].Description = desc }

\* the places of the rules list that hold this section name
ListedAt(id) == { i \in 1..Len(kwin_rules.rules) : kwin_rules.rules[i] = id }

\* the profile that was applied last
Applied == config[last_event.profile]

\* applying the profile once more changes nothing; every tile with a usable
\* match has exactly one section, no Description is on two sections, and the
\* rules list holds every section name once
AppliedStore ==
    /\ ApplyProfile(kwin_rules, config, last_event.profile) = kwin_rules
    /\ \A t \in DOMAIN Applied :
          IsUsable(Applied[t]) =>
              Cardinality(SectionsOf(Desc(last_event.profile, t))) = 1
    /\ \A d \in Descriptions(kwin_rules) : Cardinality(SectionsOf(d)) = 1
    /\ \A id \in SectionIds(kwin_rules) : Cardinality(ListedAt(id)) = 1

\* the rule file was never written: no section, no rules list, no count
NeverWritten == kwin_rules = [sections |-> << >>, rules |-> << >>, count |-> -1]

\* C30 as claimed: after a profile was applied, applying it again leaves the
\* store as it is, with one section per usable tile, no Description twice,
\* every section name once in the rules list, and count the length of the list
C30_AsClaimed ==
    last_event.op = "apply_profile_rules" =>
        AppliedStore /\ kwin_rules.count = Len(kwin_rules.rules)

\* C30: the same, but count is the length of the rules list only once the
\* file was written; a profile without tiles is applied without writing it
C30_ApplyTwice ==
    last_event.op = "apply_profile_rules" =>
        /\ AppliedStore
        /\ kwin_rules.count = Len(kwin_rules.rules) \/ NeverWritten
        /\ DOMAIN Applied # {} => kwin_rules.count = Len(kwin_rules.rules)

\* P was applied with both tiles usable, beside two sections of Q
C30_Witness ==
    /\ last_event = ProfileEvent("apply_profile_rules", "P")
    /\ \A t \in TileNames : t \in DOMAIN config["P"] /\ IsUsable(config["P"][t])
    /\ Len(kwin_rules.sections) = 4
    /\ kwin_rules.rules # << 1, 2, 3, 4 >>

=============================================================================
